---- MODULE Spec2Model ----
(***************************************************************************)
(* Model of the field-tag-driven binding of gin-handler-wrapper:           *)
(*   - the client side DefaultRequestEncoder (package restyclient), which  *)
(*     routes the fields of a tagged struct to the path parameters, the    *)
(*     query parameters, the headers and the body of a resty request;      *)
(*   - the server side DefaultDecoder (package server), which fills a      *)
(*     typed input from the URI parameters, the body and the query string  *)
(*     of a gin request.                                                   *)
(***************************************************************************)
EXTENDS Integers, Sequences, FiniteSets, TLC

VARIABLES
    input,      \* encoder: the value handed to the RequestEncoderFunc
    req,        \* encoder: the *resty.Request being filled
    encErr,     \* encoder: what the RequestEncoderFunc returned
    encPc,      \* encoder: "start" before the call, "done" after it
    itype,      \* decoder: the fields of the input type I
    ctx,        \* decoder: the *gin.Context of the request
    args,       \* decoder: `var args I`, one value per field of I
    passes,     \* decoder: the binding passes run so far, in order
    decErr,     \* decoder: the error DefaultDecoder returned, if any
    decPc,      \* decoder: the next step of DefaultDecoder
    wrapped,    \* pipeline: what WrapHandler / NewClient captured when called
    calls,      \* pipeline: the invocations of the wrapped function, by id
    store,      \* fullstack: the Store the service implementation works on
    lastCall    \* fullstack: the last operation, its request and what both callers got

encVars == <<input, req, encErr, encPc>>
decVars == <<itype, ctx, args, passes, decErr, decPc>>
pipeVars == <<wrapped, calls>>
fsVars == <<store, lastCall>>
vars == <<input, req, encErr, encPc, itype, ctx, args, passes, decErr, decPc, wrapped, calls,
          store, lastCall>>

(***************************************************************************)
(* Bounds.                                                                 *)
(***************************************************************************)
MaxFields == 2      \* fields of an encoder input struct
MaxValue == 2       \* field values are 1..MaxValue
MaxArgFields == 2   \* fields of a decoder input type

(***************************************************************************)
(* Maps (Go map[string]T) as functions over a finite set of strings.       *)
(***************************************************************************)
EmptyMap == [k \in {} |-> ""]

Put(m, k, v) == [x \in (DOMAIN m) \cup {k} |-> IF x = k THEN v ELSE m[x]]

Len0(m) == DOMAIN m = {}

Merge(m, n) == [x \in (DOMAIN m) \cup (DOMAIN n) |-> IF x \in DOMAIN n THEN n[x] ELSE m[x]]

(***************************************************************************)
(* Struct fields of the encoder input.  A field has a Go name (derived     *)
(* from its position; exported iff capitalised), a kind (a plain value, a  *)
(* nil pointer, a set pointer with its address), a value, and its struct   *)
(* tags ("" is an absent tag, as reflect's Tag.Get returns it).            *)
(***************************************************************************)
NoTags == [path |-> "", query |-> "", form |-> "", header |-> "", json |-> ""]

TagKinds == <<"path", "query", "form", "header", "json">>

\* The names the repository's tests and examples give the tags.
DefaultName == [path |-> "id", query |-> "q", form |-> "f", header |-> "h", json |-> "a"]

\* The tags of a field: one tag at a time; other spellings of the json tag
\* (another name, options, the "-" name); two tags at once (model.go:
\* `form:"page" query:"page"`), each tag with the next in precedence and the
\* first with the last; and all five at once.
TagSets ==
    { [NoTags EXCEPT !.path = "id"], [NoTags EXCEPT !.query = "q"],
      [NoTags EXCEPT !.form = "f"], [NoTags EXCEPT !.header = "h"],
      [NoTags EXCEPT !.json = "a"] }
    \cup { [NoTags EXCEPT !.json = "b"], [NoTags EXCEPT !.json = "a,omitempty"],
           [NoTags EXCEPT !.json = "-"], [NoTags EXCEPT !.json = ",omitempty"] }
    \cup { [k \in DOMAIN NoTags |->
                IF k \in {TagKinds[p[1]], TagKinds[p[2]]} THEN DefaultName[k] ELSE ""] :
             p \in { q \in (1..4) \X (2..5) : q[2] = q[1] + 1 \/ q[2] = 5 } }
    \cup { DefaultName }

Addrs == {"0xc000012340", "0xc000012348"}

PlainField(t, v) == [exported |-> TRUE, kind |-> "val", v |-> v, addr |-> "", tags |-> t]

FieldShapes ==
    \* plain exported fields with every tag shape
    { PlainField(t, 1) : t \in {NoTags} \cup TagSets }
    \* a second value, where a key collision or a round trip can tell them apart
    \cup { PlainField(t, v) :
             t \in {[NoTags EXCEPT !.form = "f"], [NoTags EXCEPT !.json = "a"]}, v \in 2..MaxValue }
    \* nil pointers
    \cup { [exported |-> TRUE, kind |-> "nilptr", v |-> 0, addr |-> "", tags |-> t] :
             t \in {NoTags, [NoTags EXCEPT !.path = "id"], [NoTags EXCEPT !.form = "f"],
                     [NoTags EXCEPT !.json = "a"]} }
    \* set pointers
    \cup { [exported |-> TRUE, kind |-> "ptr", v |-> 1, addr |-> a, tags |-> t] :
             a \in Addrs, t \in {[NoTags EXCEPT !.path = "id"], [NoTags EXCEPT !.json = "a"]} }
    \* unexported fields
    \cup { [exported |-> FALSE, kind |-> "val", v |-> 1, addr |-> "", tags |-> t] :
             t \in {NoTags, [NoTags EXCEPT !.path = "id"], [NoTags EXCEPT !.json = "a"]} }

\* The Go names of the fields of a struct, by position.
GoNames == <<"F1", "F2", "F3", "F4">>

(***************************************************************************)
(* Inputs of the encoder: untyped nil, a nil pointer, a struct, a pointer  *)
(* to a struct, a non-struct value, a pointer to a non-struct value.       *)
(***************************************************************************)
NilInput == [ptr |-> FALSE, target |-> "nil", fields |-> <<>>, names |-> <<>>, v |-> 0]

StructInput(p, s) ==
    [ptr |-> p, target |-> "struct", fields |-> s, names |-> SubSeq(GoNames, 1, Len(s)), v |-> 0]

Inputs ==
    { NilInput, [NilInput EXCEPT !.ptr = TRUE] }
    \cup { StructInput(p, s) : p \in BOOLEAN, s \in UNION { [1..n -> FieldShapes] : n \in 0..MaxFields } }
    \cup { [NilInput EXCEPT !.ptr = p, !.target = "scalar", !.v = v] : p \in BOOLEAN, v \in 1..MaxValue }

(***************************************************************************)
(* The resty request envelope.  A fresh request (restyClient.R()) has no   *)
(* path parameter, query parameter, header or body of its own; `calls`     *)
(* records the setters called on it, in order.                             *)
(***************************************************************************)
NoBody == [kind |-> "none", m |-> EmptyMap, whole |-> NilInput]

FreshRequest ==
    [PathParams |-> EmptyMap, QueryParams |-> EmptyMap, Header |-> EmptyMap,
     Body |-> NoBody, calls |-> <<>>]

SetPathParams(r, m) ==
    [r EXCEPT !.PathParams = Merge(@, m), !.calls = Append(@, "SetPathParams")]

SetQueryParams(r, m) ==
    [r EXCEPT !.QueryParams = Merge(@, m), !.calls = Append(@, "SetQueryParams")]

SetHeaders(r, m) ==
    [r EXCEPT !.Header = Merge(@, m), !.calls = Append(@, "SetHeaders")]

\* req.SetBody(bodyFields)
SetBodyMap(r, m) ==
    [r EXCEPT !.Body = [kind |-> "map", m |-> m, whole |-> NilInput],
              !.calls = Append(@, "SetBody")]

\* req.SetBody(input)
SetBodyInput(r, in) ==
    [r EXCEPT !.Body = [kind |-> "input", m |-> EmptyMap, whole |-> in],
              !.calls = Append(@, "SetBody")]

(***************************************************************************)
(* DefaultRequestEncoder.                                                  *)
(***************************************************************************)
\* fieldValue.Interface(): the boxed field value (a pointer stays a pointer).
Interface(f) == [kind |-> f.kind, v |-> f.v, addr |-> f.addr]

\* fmt.Sprintf("%v", x): decimal for an integer, the address for a pointer.
Sprintf(x) == IF x.kind = "ptr" THEN x.addr ELSE ToString(x.v)

\* strings.Split(jsonTag, ",")[0]
JsonName(jsonTag) ==
    CASE jsonTag = "a,omitempty" -> "a"
      [] jsonTag = ",omitempty" -> ""
      [] OTHER -> jsonTag

EmptyAcc ==
    [pathParams |-> EmptyMap, queryParams |-> EmptyMap, headers |-> EmptyMap,
     bodyFields |-> EmptyMap, hasBodyTag |-> FALSE, panic |-> FALSE]

\* A RouteField whose path branch lacks its `continue`: a field with a path
\* tag and a json tag also lands in the body.
RouteField_NoContinue(acc, f) ==
    LET strValue == Sprintf(Interface(f))
        acc1 == IF f.tags.path # "" THEN [acc EXCEPT !.pathParams = Put(@, f.tags.path, strValue)]
                ELSE acc
    IN
    IF ~f.exported THEN [acc EXCEPT !.panic = TRUE]
    ELSE IF f.tags.query # "" THEN [acc1 EXCEPT !.queryParams = Put(@, f.tags.query, strValue)]
    ELSE IF f.tags.form # "" THEN [acc1 EXCEPT !.queryParams = Put(@, f.tags.form, strValue)]
    ELSE IF f.tags.header # "" THEN [acc1 EXCEPT !.headers = Put(@, f.tags.header, strValue)]
    ELSE IF f.tags.json # "" THEN
        IF JsonName(f.tags.json) # "-"
        THEN [acc1 EXCEPT !.hasBodyTag = TRUE,
                          !.bodyFields = Put(@, JsonName(f.tags.json), Interface(f))]
        ELSE [acc1 EXCEPT !.hasBodyTag = TRUE]
    ELSE acc1

\* A RouteField that looks at the form tag before the query tag.
RouteField_FormFirst(acc, f) ==
    LET strValue == Sprintf(Interface(f)) IN
    IF ~f.exported THEN [acc EXCEPT !.panic = TRUE]
    ELSE IF f.tags.path # "" THEN [acc EXCEPT !.pathParams = Put(@, f.tags.path, strValue)]
    ELSE IF f.tags.form # "" THEN [acc EXCEPT !.queryParams = Put(@, f.tags.form, strValue)]
    ELSE IF f.tags.query # "" THEN [acc EXCEPT !.queryParams = Put(@, f.tags.query, strValue)]
    ELSE IF f.tags.header # "" THEN [acc EXCEPT !.headers = Put(@, f.tags.header, strValue)]
    ELSE IF f.tags.json # "" THEN
        IF JsonName(f.tags.json) # "-"
        THEN [acc EXCEPT !.hasBodyTag = TRUE,
                         !.bodyFields = Put(@, JsonName(f.tags.json), Interface(f))]
        ELSE [acc EXCEPT !.hasBodyTag = TRUE]
    ELSE acc

\* The loop body from strValue on: the string of the value, then the tag
\* dispatch.  reflect's Interface() panics on an unexported field.
RouteField(acc, f) ==
    LET strValue == Sprintf(Interface(f)) IN
    IF ~f.exported THEN [acc EXCEPT !.panic = TRUE]
    ELSE IF f.tags.path # "" THEN [acc EXCEPT !.pathParams = Put(@, f.tags.path, strValue)]
    ELSE IF f.tags.query # "" THEN [acc EXCEPT !.queryParams = Put(@, f.tags.query, strValue)]
    ELSE IF f.tags.form # "" THEN [acc EXCEPT !.queryParams = Put(@, f.tags.form, strValue)]
    ELSE IF f.tags.header # "" THEN [acc EXCEPT !.headers = Put(@, f.tags.header, strValue)]
    ELSE IF f.tags.json # "" THEN
        IF JsonName(f.tags.json) # "-"
        THEN [acc EXCEPT !.hasBodyTag = TRUE,
                         !.bodyFields = Put(@, JsonName(f.tags.json), Interface(f))]
        ELSE [acc EXCEPT !.hasBodyTag = TRUE]
    ELSE acc

\* A loop body without the IsExported check.
EncodeField_NoExportedCheck(acc, f) ==
    IF f.kind = "nilptr" THEN acc
    ELSE RouteField(acc, f)

\* A loop body without the nil pointer check: a nil pointer field goes
\* through the tag dispatch like any other.
EncodeField_NoNilSkip(acc, f) ==
    IF ~f.exported THEN acc
    ELSE RouteField(acc, f)

\* One iteration of the loop over the fields.
EncodeField(acc, f) ==
    IF ~f.exported THEN acc                     \* skip unexported fields
    ELSE IF f.kind = "nilptr" THEN acc          \* skip nil pointers
    ELSE RouteField(acc, f)

RECURSIVE EncodeFields(_, _, _)
EncodeFields(fields, i, acc) ==
    IF i > Len(fields) THEN acc
    ELSE EncodeFields(fields, i + 1, EncodeField(acc, fields[i]))

\* An ApplyAcc without the whole-input branch.
ApplyAcc_BodyFieldsOnly(r, in, acc) ==
    LET r1 == IF ~Len0(acc.pathParams) THEN SetPathParams(r, acc.pathParams) ELSE r
        r2 == IF ~Len0(acc.queryParams) THEN SetQueryParams(r1, acc.queryParams) ELSE r1
        r3 == IF ~Len0(acc.headers) THEN SetHeaders(r2, acc.headers) ELSE r2
    IN  IF acc.hasBodyTag /\ ~Len0(acc.bodyFields) THEN SetBodyMap(r3, acc.bodyFields) ELSE r3

\* An ApplyAcc that calls the three map setters without the len() > 0 guards.
ApplyAcc_AlwaysSet(r, in, acc) ==
    LET r3 == SetHeaders(SetQueryParams(SetPathParams(r, acc.pathParams), acc.queryParams),
                         acc.headers)
    IN  IF acc.hasBodyTag /\ ~Len0(acc.bodyFields) THEN SetBodyMap(r3, acc.bodyFields)
        ELSE IF ~acc.hasBodyTag /\ Len0(acc.pathParams) /\ Len0(acc.queryParams)
                /\ Len0(acc.headers)
             THEN SetBodyInput(r3, in)
             ELSE r3

\* An ApplyAcc that sends the whole input whenever no json tag was seen.
ApplyAcc_WholeUnlessBodyTag(r, in, acc) ==
    LET r1 == IF ~Len0(acc.pathParams) THEN SetPathParams(r, acc.pathParams) ELSE r
        r2 == IF ~Len0(acc.queryParams) THEN SetQueryParams(r1, acc.queryParams) ELSE r1
        r3 == IF ~Len0(acc.headers) THEN SetHeaders(r2, acc.headers) ELSE r2
    IN  IF acc.hasBodyTag /\ ~Len0(acc.bodyFields) THEN SetBodyMap(r3, acc.bodyFields)
        ELSE IF ~acc.hasBodyTag THEN SetBodyInput(r3, in)
             ELSE r3

\* The four setter calls after the loop.
ApplyAcc(r, in, acc) ==
    LET r1 == IF ~Len0(acc.pathParams) THEN SetPathParams(r, acc.pathParams) ELSE r
        r2 == IF ~Len0(acc.queryParams) THEN SetQueryParams(r1, acc.queryParams) ELSE r1
        r3 == IF ~Len0(acc.headers) THEN SetHeaders(r2, acc.headers) ELSE r2
    IN  IF acc.hasBodyTag /\ ~Len0(acc.bodyFields) THEN SetBodyMap(r3, acc.bodyFields)
        ELSE IF ~acc.hasBodyTag /\ Len0(acc.pathParams) /\ Len0(acc.queryParams)
                /\ Len0(acc.headers)
             THEN SetBodyInput(r3, in)
             ELSE r3

\* The same without the nil checks: reflect reports an invalid kind, which
\* is no struct, and the input is set as the body.
EncodeNonStruct_NoNilCheck(r, in) == [req |-> SetBodyInput(r, in), err |-> "nil"]

\* The handling of nil and of non-struct inputs, before the loop.
EncodeNonStruct(r, in) ==
    IF in.target = "nil" THEN [req |-> r, err |-> "nil"]        \* nil, or a nil pointer
    ELSE [req |-> SetBodyInput(r, in), err |-> "nil"]           \* not a struct: the body

\* An encoder without `v = v.Elem()`: the kind of a pointer is not Struct,
\* so a pointer to a struct is set as the body like any non-struct value.
DefaultRequestEncoder_NoElem(r, in) ==
    IF in.target # "struct" \/ in.ptr THEN EncodeNonStruct(r, in)
    ELSE LET acc == EncodeFields(in.fields, 1, EmptyAcc) IN
         IF acc.panic THEN [req |-> r, err |-> "panic"]
         ELSE [req |-> ApplyAcc(r, in, acc), err |-> "nil"]

\* The encoder: nil and non-struct inputs apart, the loop over the fields of
\* the struct (the pointed-to struct, for a pointer), then the setters.
DefaultRequestEncoder(r, in) ==
    IF in.target # "struct" THEN EncodeNonStruct(r, in)
    ELSE LET acc == EncodeFields(in.fields, 1, EmptyAcc) IN
         IF acc.panic THEN [req |-> r, err |-> "panic"]
         ELSE [req |-> ApplyAcc(r, in, acc), err |-> "nil"]

(***************************************************************************)
(* The body on the wire.  resty marshals the value given to SetBody with   *)
(* encoding/json when the request is executed: a map by its keys, a struct *)
(* by its exported fields under their json names (the Go name when the tag *)
(* gives none; "-" and empty omitempty fields left out), a pointer by what *)
(* it points to, nil as null.  A JSON document is the set of its members.  *)
(***************************************************************************)
WireValue(x) == IF x.kind = "nilptr" THEN "null" ELSE ToString(x.v)

OmitEmpty(jsonTag) == jsonTag \in {"a,omitempty", ",omitempty"}

Serialised(f) ==
    /\ f.exported
    /\ f.tags.json # "-"
    /\ ~(OmitEmpty(f.tags.json) /\ f.kind = "nilptr")

JsonKey(in, i) ==
    IF JsonName(in.fields[i].tags.json) = "" THEN in.names[i]
    ELSE JsonName(in.fields[i].tags.json)

MarshalInput(in) ==
    CASE in.target = "nil" -> { <<"", "null">> }
      [] in.target = "scalar" -> { <<"", ToString(in.v)>> }
      [] OTHER -> { <<JsonKey(in, i), WireValue(Interface(in.fields[i]))>> :
                      i \in { j \in 1..Len(in.fields) : Serialised(in.fields[j]) } }

MarshalMap(m) == { <<k, WireValue(m[k])>> : k \in DOMAIN m }

WireBody(b) ==
    CASE b.kind = "none" -> [sent |-> FALSE, json |-> {}]
      [] b.kind = "map" -> [sent |-> TRUE, json |-> MarshalMap(b.m)]
      [] OTHER -> [sent |-> TRUE, json |-> MarshalInput(b.whole)]

\* What the request carries: the three maps and the marshalled body.
WireOf(r) ==
    [path |-> r.PathParams, query |-> r.QueryParams, header |-> r.Header,
     body |-> WireBody(r.Body)]

(***************************************************************************)
(* The server side.  The input type I is the sequence of its fields, each  *)
(* with the tags gin binds by (uri, form, header, json; "" is an absent    *)
(* tag) and whether it is `binding:"required"`.  All fields are integers.  *)
(***************************************************************************)
NoBind == [uri |-> "", form |-> "", header |-> "", json |-> "", required |-> FALSE]

ArgShapes ==
    { [NoBind EXCEPT !.uri = "id"],                                 \* TestCombinedRequest.ID
      [NoBind EXCEPT !.uri = "id", !.required = TRUE],              \* TestURIRequest.ID
      [NoBind EXCEPT !.form = "n"],                                 \* TestQueryRequest.Page
      [NoBind EXCEPT !.json = "n"],                                 \* TestCombinedRequest.Name
      [NoBind EXCEPT !.json = "n", !.required = TRUE],              \* TestRequest.Name
      [NoBind EXCEPT !.uri = "id", !.form = "id"],                  \* path and query
      [NoBind EXCEPT !.uri = "id", !.json = "id"],                  \* path and body
      [NoBind EXCEPT !.form = "n", !.json = "n"],                   \* body and query
      [NoBind EXCEPT !.uri = "id", !.form = "id", !.json = "id"] }  \* all three

\* `var args I`: every field at its zero value.
ZeroArgs(t) == [i \in 1..Len(t) |-> 0]

(***************************************************************************)
(* The gin context of a request: the URI parameters of the matched route,  *)
(* the declared Content-Length (-1 when the length is unknown, as for a    *)
(* chunked body), the content type, the body (well-formed or not, and its  *)
(* members) and the parsed query string.  Values are strings on the wire;  *)
(* "x" is one that is no integer.  Each source has a value of its own.     *)
(***************************************************************************)
MapsOver(keys, vals) == UNION { [K -> vals] : K \in SUBSET keys }

EmptyBody == [len |-> 0, ok |-> TRUE, m |-> EmptyMap]

Bodies ==
    { [ContentLength |-> 0, ContentType |-> "", Body |-> EmptyBody] }
    \cup { [ContentLength |-> 1, ContentType |-> "application/json",
            Body |-> [len |-> 1, ok |-> FALSE, m |-> EmptyMap]] }
    \cup { [ContentLength |-> 1, ContentType |-> ct, Body |-> [len |-> 1, ok |-> TRUE, m |-> m]] :
             ct \in {"application/json", "application/x-www-form-urlencoded"},
             m \in { b \in MapsOver({"id", "n"}, {"2", "x"}) : "id" \in DOMAIN b => b["id"] = "2" } }
    \cup { [ContentLength |-> -1, ContentType |-> "application/json",
            Body |-> [len |-> 1, ok |-> TRUE, m |-> [k \in {"id", "n"} |-> "2"]]] }

Requests ==
    { [Params |-> p, Query |-> q, Header |-> EmptyMap, ContentLength |-> b.ContentLength,
       ContentType |-> b.ContentType, Body |-> b.Body] :
        p \in MapsOver({"id"}, {"1", "x"}),
        q \in { m \in MapsOver({"id", "n"}, {"3", "x"}) : "id" \in DOMAIN m => m["id"] = "3" },
        b \in Bodies }

(***************************************************************************)
(* gin's binding, as DefaultDecoder relies on it: a pass maps the values   *)
(* of its source onto the fields that carry its tag (a field whose key is  *)
(* absent from the source is left as it is; a value that does not parse is *)
(* an error), then validates the whole struct (a required field still at   *)
(* zero is an error).                                                      *)
(***************************************************************************)
IsInt(str) == \E n \in 0..9 : str = ToString(n)

\* strconv.ParseInt
ParseInt(str) == IF IsInt(str) THEN CHOOSE n \in 0..9 : str = ToString(n) ELSE 0

\* binding's mapping by tag: the fields of type t whose `tag` names a key of src.
Bound(t, tag, src) == { i \in 1..Len(t) : t[i][tag] # "" /\ t[i][tag] \in DOMAIN src }

MapByTag(t, a, tag, src) ==
    IF \E i \in Bound(t, tag, src) : ~IsInt(src[t[i][tag]])
    THEN [args |-> [i \in 1..Len(t) |->
                      IF i \in Bound(t, tag, src) /\ IsInt(src[t[i][tag]])
                      THEN ParseInt(src[t[i][tag]]) ELSE a[i]],
          err |-> "parse error"]
    ELSE [args |-> [i \in 1..Len(t) |->
                      IF i \in Bound(t, tag, src) THEN ParseInt(src[t[i][tag]]) ELSE a[i]],
          err |-> "nil"]

\* binding.Validator: `binding:"required"` fields must not be zero.
Validate(t, r) ==
    IF r.err = "nil" /\ \E i \in 1..Len(t) : t[i].required /\ r.args[i] = 0
    THEN [r EXCEPT !.err = "validation error"]
    ELSE r

\* c.ShouldBindUri(&args)
ShouldBindUri(c, t, a) == Validate(t, MapByTag(t, a, "uri", c.Params))

\* c.ShouldBindQuery(&args)
ShouldBindQuery(c, t, a) == Validate(t, MapByTag(t, a, "form", c.Query))

\* c.ShouldBind(&args): the binding the content type selects.  The form
\* binding reads the request's form, body members before query members.
ShouldBind(c, t, a) ==
    IF c.ContentType = "application/json"
    THEN IF ~c.Body.ok THEN [args |-> a, err |-> "malformed body"]
         ELSE Validate(t, MapByTag(t, a, "json", c.Body.m))
    ELSE Validate(t, MapByTag(t, a, "form", Merge(c.Query, c.Body.m)))

(***************************************************************************)
(* DefaultDecoder: three guarded passes, each returning at once on error.  *)
(***************************************************************************)
Skipped(a) == [ran |-> FALSE, args |-> a, err |-> "nil"]

Ran(r) == [ran |-> TRUE, args |-> r.args, err |-> r.err]

\* 1. URI parameters, only when there are some.
UriPass(c, t, a) == IF ~Len0(c.Params) THEN Ran(ShouldBindUri(c, t, a)) ELSE Skipped(a)

\* A body pass without its Content-Length guard.
BodyPass_Unguarded(c, t, a) == Ran(ShouldBind(c, t, a))

\* 2. the body, only when the declared length is positive.
BodyPass(c, t, a) == IF c.ContentLength > 0 THEN Ran(ShouldBind(c, t, a)) ELSE Skipped(a)

\* A query pass without its guard.
QueryPass_Unguarded(c, t, a) == Ran(ShouldBindQuery(c, t, a))

\* 3. the query, only when there is one.
QueryPass(c, t, a) == IF ~Len0(c.Query) THEN Ran(ShouldBindQuery(c, t, a)) ELSE Skipped(a)

\* A decoder that records the error and goes on with the next pass.
NextPc_IgnoreError(pc, err) ==
    CASE pc = "uri" -> "body" [] pc = "body" -> "query" [] OTHER -> "done"

\* A decoder that binds the query before the body.
NextPc_QueryBeforeBody(pc, err) ==
    IF err # "nil" THEN "done"
    ELSE CASE pc = "uri" -> "query" [] pc = "query" -> "body" [] OTHER -> "done"

\* Where DefaultDecoder goes after a pass: `return args, err` on an error,
\* the next pass otherwise, `return args, nil` after the last.
NextPc(pc, err) ==
    IF err # "nil" THEN "done"
    ELSE CASE pc = "uri" -> "body" [] pc = "body" -> "query" [] OTHER -> "done"

DecStep(name, r) ==
    /\ args' = r.args
    /\ passes' = IF r.ran THEN Append(passes, [pass |-> name, err |-> r.err]) ELSE passes
    /\ decErr' = r.err
    /\ decPc' = NextPc(decPc, r.err)
    /\ UNCHANGED <<itype, ctx, encVars, pipeVars, fsVars>>

BindUri == decPc = "uri" /\ DecStep("uri", UriPass(ctx, itype, args))

BindBody == decPc = "body" /\ DecStep("body", BodyPass(ctx, itype, args))

BindQuery == decPc = "query" /\ DecStep("query", QueryPass(ctx, itype, args))

\* No service is set up and no operation was called.
FsIdle ==
    /\ store = [users |-> {}, articles |-> {}, nextID |-> 0]
    /\ lastCall = [op |-> "none"]

\* Nothing is wrapped and nothing is invoked.
PipeIdle ==
    /\ wrapped = [side |-> "none"]
    /\ calls = <<>>

EncIdle ==
    /\ input = NilInput
    /\ req = FreshRequest
    /\ encErr = "pending"
    /\ encPc = "idle"

DecInit ==
    /\ itype \in UNION { [1..n -> ArgShapes] : n \in 0..MaxArgFields }
    /\ ctx \in Requests
    /\ args = ZeroArgs(itype)
    /\ passes = <<>>
    /\ decErr = "nil"
    /\ decPc = "uri"
    /\ EncIdle
    /\ PipeIdle
    /\ FsIdle

DecNext == BindUri \/ BindBody \/ BindQuery

DecoderSpec == DecInit /\ [][DecNext]_vars

(***************************************************************************)
(* The encoder as a state machine: one call on a fresh request.            *)
(***************************************************************************)
DecIdle ==
    /\ itype = <<>>
    /\ ctx = [Params |-> EmptyMap, Query |-> EmptyMap, Header |-> EmptyMap,
              ContentLength |-> 0, ContentType |-> "", Body |-> EmptyBody]
    /\ args = <<>>
    /\ passes = <<>>
    /\ decErr = "nil"
    /\ decPc = "idle"

Init ==
    /\ input \in Inputs
    /\ req = FreshRequest
    /\ encErr = "pending"
    /\ encPc = "start"
    /\ DecIdle
    /\ PipeIdle
    /\ FsIdle

Encode ==
    /\ encPc = "start"
    /\ LET out == DefaultRequestEncoder(req, input) IN
        /\ req' = out.req
        /\ encErr' = out.err
    /\ encPc' = "done"
    /\ UNCHANGED <<input, decVars, pipeVars, fsVars>>

Next == Encode

Spec == Init /\ [][Next]_vars

(***************************************************************************)
(* What the claims about the encoder speak of.  The classification below   *)
(* is stated from the documented precedence, independently of RouteField.  *)
(***************************************************************************)
EncDone == encPc = "done"

IsStructInput == input.target = "struct"

FieldIdx == IF IsStructInput THEN 1..Len(input.fields) ELSE {}

\* The field is visited by the encoder: exported and not a nil pointer.
Live(f) == f.exported /\ f.kind # "nilptr"

TagsOf(f) == { i \in 1..Len(TagKinds) : f.tags[TagKinds[i]] # "" }

\* The highest-precedence tag a field carries ("" when it carries none).
FirstTag(f) ==
    IF TagsOf(f) = {} THEN ""
    ELSE TagKinds[CHOOSE i \in TagsOf(f) : \A j \in TagsOf(f) : i <= j]

\* The envelope part a tag writes to.
PartOf(tag) ==
    CASE tag = "path" -> "path"
      [] tag \in {"query", "form"} -> "query"
      [] tag = "header" -> "header"
      [] tag = "json" -> "body"
      [] OTHER -> "none"

\* The name a tag of a field gives it in its part.
KeyOf(f, tag) == IF tag = "json" THEN JsonName(f.tags.json) ELSE f.tags[tag]

Dest(f) == PartOf(FirstTag(f))

\* The fields that reach part d: visited, classified to d, and, for the
\* body, not named "-".
Routed(fields, d) ==
    { i \in 1..Len(fields) :
        /\ Live(fields[i])
        /\ Dest(fields[i]) = d
        /\ (d = "body" => KeyOf(fields[i], "json") # "-") }

\* The last field of a set of positions that has key k in its part.
LastWith(fields, S, k) ==
    CHOOSE i \in S :
        /\ KeyOf(fields[i], FirstTag(fields[i])) = k
        /\ \A j \in S : KeyOf(fields[j], FirstTag(fields[j])) = k => j <= i

\* The mapping the fields routed to d make: name -> string of the value.
StrMapOf(fields, d) ==
    LET S == Routed(fields, d) IN
    [k \in { KeyOf(fields[i], FirstTag(fields[i])) : i \in S } |->
        Sprintf(Interface(fields[LastWith(fields, S, k)]))]

\* The mapping the body fields make: json name -> value.
BodyMapOf(fields) ==
    LET S == Routed(fields, "body") IN
    [k \in { KeyOf(fields[i], "json") : i \in S } |->
        Interface(fields[LastWith(fields, S, k)])]

\* The body-tagged fields of a struct: exported, classified to the body, and
\* not excluded from JSON by the name "-" (nil pointers included).
BodyTagged(fields) ==
    { i \in 1..Len(fields) :
        fields[i].exported /\ Dest(fields[i]) = "body" /\ KeyOf(fields[i], "json") # "-" }

\* C1 (as claimed): a struct with at least one body-tagged field gets as body
\* the JSON of the mapping of exactly its body-tagged fields, keyed by their
\* json names: no body-tagged field is missing from it.
C1_BodyIsAllBodyTaggedFields ==
    (EncDone /\ IsStructInput /\ BodyTagged(input.fields) # {})
    => WireBody(req.Body) =
         [sent |-> TRUE,
          json |-> { <<KeyOf(input.fields[i], "json"), WireValue(Interface(input.fields[i]))>> :
                       i \in BodyTagged(input.fields) }]

\* C1 (amended): a struct with at least one body-tagged field that is not a
\* nil pointer gets as body the mapping of exactly its non-nil body-tagged
\* fields, keyed by their json names (the tag up to its first comma; the
\* last field of a name wins); fields routed to path, query or header are
\* not in it, and neither are body-tagged fields that are nil pointers.
C1_BodyIsRoutedBodyFields ==
    (EncDone /\ IsStructInput /\ Routed(input.fields, "body") # {})
    => /\ req.Body.kind = "map"
       /\ req.Body.m = BodyMapOf(input.fields)

\* C1 witness: a body field next to a field routed to the path.
C1_Witness ==
    /\ EncDone /\ IsStructInput
    /\ Routed(input.fields, "body") # {}
    /\ Routed(input.fields, "path") # {}
    /\ \E i \in FieldIdx : input.fields[i].tags.path # "" /\ input.fields[i].tags.json # ""
    /\ req.Body.kind = "map"

\* C2: an input none of whose fields carries a recognized tag (a struct of
\* untagged fields, or a value that is no struct) is the request body whole,
\* and no path parameter, query parameter or header is set.
C2_NoTagsWholeBody ==
    (EncDone /\ input.target # "nil" /\ \A i \in FieldIdx : TagsOf(input.fields[i]) = {})
    => /\ req.Body = [kind |-> "input", m |-> EmptyMap, whole |-> input]
       /\ req.PathParams = EmptyMap
       /\ req.QueryParams = EmptyMap
       /\ req.Header = EmptyMap
       /\ req.calls = <<"SetBody">>

\* C2 witness: a struct of two untagged fields, one of them a nil pointer.
C2_Witness ==
    /\ EncDone /\ IsStructInput /\ Len(input.fields) >= 2
    /\ \A i \in FieldIdx : TagsOf(input.fields[i]) = {}
    /\ \E i \in FieldIdx : input.fields[i].kind = "nilptr"
    /\ \E i \in FieldIdx : input.fields[i].kind = "val" /\ input.fields[i].exported
    /\ req.Body.kind = "input"

\* The parts of the envelope and what each holds.
Parts == <<"path", "query", "header", "body">>

PartMap(r, d) ==
    CASE d = "path" -> r.PathParams
      [] d = "query" -> r.QueryParams
      [] d = "header" -> r.Header
      [] OTHER -> r.Body.m

PartUnset(r, d) ==
    CASE d = "path" -> r.PathParams = EmptyMap /\ \A n \in 1..Len(r.calls) : r.calls[n] # "SetPathParams"
      [] d = "query" -> r.QueryParams = EmptyMap /\ \A n \in 1..Len(r.calls) : r.calls[n] # "SetQueryParams"
      [] d = "header" -> r.Header = EmptyMap /\ \A n \in 1..Len(r.calls) : r.calls[n] # "SetHeaders"
      [] OTHER -> r.Body = NoBody /\ \A n \in 1..Len(r.calls) : r.calls[n] # "SetBody"

\* The exported, non-nil fields that carry a recognized tag.
LiveTagged(fields) == { i \in 1..Len(fields) : Live(fields[i]) /\ TagsOf(fields[i]) # {} }

\* C3 (as claimed), for a struct with tagged fields: every exported, non-nil,
\* tagged field appears in its part under its tag name, and in no other part;
\* a part no field is routed to is left unset.
C3_EveryTaggedFieldInOnePart ==
    (EncDone /\ IsStructInput
       /\ \E i \in FieldIdx : input.fields[i].exported /\ TagsOf(input.fields[i]) # {})
    => /\ \A i \in LiveTagged(input.fields) :
            KeyOf(input.fields[i], FirstTag(input.fields[i]))
                \in DOMAIN PartMap(req, Dest(input.fields[i]))
       /\ \A n \in 1..Len(Parts) :
            /\ DOMAIN PartMap(req, Parts[n]) \subseteq
                 { KeyOf(input.fields[i], FirstTag(input.fields[i])) :
                     i \in { j \in LiveTagged(input.fields) : Dest(input.fields[j]) = Parts[n] } }
            /\ { j \in LiveTagged(input.fields) : Dest(input.fields[j]) = Parts[n] } = {}
                 => PartUnset(req, Parts[n])

\* The setters called for the parts that have something routed to them.
RECURSIVE SettersFor(_, _)
SettersFor(fields, n) ==
    IF n > Len(Parts) THEN <<>>
    ELSE (IF Parts[n] = "body"
          THEN (IF Routed(fields, "body") # {} \/ LiveTagged(fields) = {} THEN <<"SetBody">> ELSE <<>>)
          ELSE (IF Routed(fields, Parts[n]) # {}
                THEN << CASE Parts[n] = "path" -> "SetPathParams"
                          [] Parts[n] = "query" -> "SetQueryParams"
                          [] OTHER -> "SetHeaders" >>
                ELSE <<>>))
         \o SettersFor(fields, n + 1)

\* C3 (amended): every exported, non-nil, tagged field, other than one whose
\* json name is "-", appears in exactly one of the four parts under its tag
\* name (the last field of a name wins); a part no field is routed to is left
\* unset, except that the body is the whole input when the struct has no
\* exported, non-nil, tagged field at all.
C3_PartitionOfRoutedFields ==
    (EncDone /\ IsStructInput)
    => /\ req.PathParams = StrMapOf(input.fields, "path")
       /\ req.QueryParams = StrMapOf(input.fields, "query")
       /\ req.Header = StrMapOf(input.fields, "header")
       /\ req.Body =
            IF Routed(input.fields, "body") # {}
            THEN [kind |-> "map", m |-> BodyMapOf(input.fields), whole |-> NilInput]
            ELSE IF LiveTagged(input.fields) = {}
                 THEN [kind |-> "input", m |-> EmptyMap, whole |-> input]
                 ELSE NoBody
       /\ req.calls = SettersFor(input.fields, 1)

\* C3 witness: a field routed to the path and one to the body; no query
\* parameter and no header.
C3_Witness ==
    /\ EncDone /\ IsStructInput
    /\ \E i, j \in FieldIdx :
         /\ input.fields[i].tags = [NoTags EXCEPT !.path = "id"] /\ Live(input.fields[i])
         /\ input.fields[j].tags = [NoTags EXCEPT !.json = "a"] /\ Live(input.fields[j])
    /\ req.calls = <<"SetPathParams", "SetBody">>
    /\ req.QueryParams = EmptyMap /\ req.Header = EmptyMap
    /\ DOMAIN req.PathParams = {"id"} /\ DOMAIN req.Body.m = {"a"}

\* C4: a field is written under its highest-precedence tag (path, query,
\* form, header, json, in this order) only: the name of a lower-precedence
\* tag of the field shows up in that tag's part only if another field puts
\* it there; a form tag writes to the query map.
C4_FirstTagWins ==
    (EncDone /\ IsStructInput)
    => \A i \in FieldIdx : Live(input.fields[i]) =>
        \A t \in TagsOf(input.fields[i]) :
            LET f == input.fields[i]
                tag == TagKinds[t]
                k == KeyOf(f, tag)
                others == { j \in Routed(input.fields, PartOf(tag)) \ {i} :
                              KeyOf(input.fields[j], FirstTag(input.fields[j])) = k }
            IN
            IF tag = FirstTag(f)
            THEN (tag = "json" /\ k = "-")
                 \/ /\ k \in DOMAIN PartMap(req, PartOf(tag))
                    /\ (\A j \in others : j < i) =>
                          PartMap(req, PartOf(tag))[k] =
                             (IF tag = "json" THEN Interface(f) ELSE Sprintf(Interface(f)))
            ELSE k \in DOMAIN PartMap(req, PartOf(tag)) => others # {}

\* C4 witness: a field with a query tag and a form tag went to the query map
\* under its query name, and a form-only field under its form name.
C4_Witness ==
    /\ EncDone /\ IsStructInput
    /\ \E i, j \in FieldIdx :
         /\ input.fields[i].tags = [NoTags EXCEPT !.query = "q", !.form = "f"]
         /\ input.fields[j].tags = [NoTags EXCEPT !.form = "f"]
         /\ input.fields[j].v = 2 /\ i < j
    /\ DOMAIN req.QueryParams = {"q", "f"}
    /\ req.QueryParams["f"] = "2"

\* C5: encoding a nil input (untyped nil or a nil pointer) returns a nil
\* error and leaves the request as it was: nothing set, no setter called.
C5_NilInputNoOp ==
    (EncDone /\ input.target = "nil") => (encErr = "nil" /\ req = FreshRequest)

\* C5 witness: a nil pointer was encoded.
C5_Witness == EncDone /\ input.target = "nil" /\ input.ptr

\* The input without its i-th field.
Without(in, i) ==
    [in EXCEPT !.fields = SubSeq(@, 1, i - 1) \o SubSeq(@, i + 1, Len(@)),
               !.names = SubSeq(@, 1, i - 1) \o SubSeq(@, i + 1, Len(@))]

NilUntagged(f) == f.kind = "nilptr" /\ TagsOf(f) = {}

C7_EncoderTotal ==
    /\ encPc = "start" => DefaultRequestEncoder(req, input).err = "nil"
    /\ EncDone => encErr = "nil"

\* C7 witness: a struct with an unexported field and a nil pointer field was
\* encoded.
C7_Witness ==
    /\ EncDone /\ IsStructInput /\ encErr = "nil"
    /\ \E i, j \in FieldIdx : ~input.fields[i].exported /\ input.fields[j].kind = "nilptr"

(***************************************************************************)
(* What the claims about the decoder speak of.                             *)
(***************************************************************************)
DecDone == decPc = "done"

PassOrder == <<"uri", "body", "query">>

\* The names of the passes run so far.
PassNames == [n \in 1..Len(passes) |-> passes[n].pass]

\* The source of a pass is not empty, as the claim puts it: URI parameters
\* present, a request body of nonzero length, a non-empty query string.
SourceNonEmpty(p) ==
    CASE p = "uri" -> ctx.Params # EmptyMap
      [] p = "body" -> ctx.Body.len > 0
      [] OTHER -> ctx.Query # EmptyMap

\* The same with the body judged by the declared Content-Length.
SourceDeclared(p) ==
    CASE p = "uri" -> ctx.Params # EmptyMap
      [] p = "body" -> ctx.ContentLength > 0
      [] OTHER -> ctx.Query # EmptyMap

IsPrefix(s, t) == Len(s) <= Len(t) /\ s = SubSeq(t, 1, Len(s))

OnlyPathRequest == ctx.Params # EmptyMap /\ ctx.Body.len = 0 /\ ctx.Query = EmptyMap

\* C8 (as claimed): the passes run are, in the order path, body, query,
\* exactly those whose source is not empty; a request with only path
\* parameters runs the path pass alone and leaves the other fields at zero.
C8_PassIffSourceNonEmpty ==
    DecDone =>
        /\ PassNames = SelectSeq(PassOrder, SourceNonEmpty)
        /\ OnlyPathRequest =>
             \A i \in 1..Len(itype) : itype[i].uri = "" => args[i] = 0

\* C8 (amended): the passes run in the order path, body, query, and a pass
\* runs if and only if no earlier pass failed and its source is not empty:
\* URI parameters present, a declared Content-Length above zero (a body of
\* undeclared length is not bound), a non-empty query string; a request with
\* only path parameters runs the path pass alone and leaves every non-path
\* field at its zero value.
C8_PassIffSourceAndNoFailure ==
    /\ IsPrefix(PassNames, SelectSeq(PassOrder, SourceDeclared))
    /\ (DecDone /\ decErr = "nil") => PassNames = SelectSeq(PassOrder, SourceDeclared)
    /\ (DecDone /\ decErr # "nil") => (passes # <<>> /\ passes[Len(passes)].err # "nil")
    /\ \A n \in 1..Len(passes) : n < Len(passes) => passes[n].err = "nil"
    /\ (DecDone /\ OnlyPathRequest) =>
         /\ PassNames = <<"uri">>
         /\ \A i \in 1..Len(itype) : itype[i].uri = "" => args[i] = 0

\* C8 witness: a request with only path parameters was decoded into a type
\* with a path field and a non-path field.
C8_Witness ==
    /\ DecDone /\ decErr = "nil" /\ OnlyPathRequest
    /\ PassNames = <<"uri">>
    /\ \E i, j \in 1..Len(itype) :
         /\ itype[i].uri # "" /\ args[i] = 1
         /\ itype[j].uri = "" /\ args[j] = 0

\* C9: a pass that fails ends the decoding: its error is the one returned,
\* and it is the last pass run.
C9_FailureAborts ==
    /\ \A n \in 1..Len(passes) :
         passes[n].err # "nil" => (n = Len(passes) /\ DecDone /\ decErr = passes[n].err)
    /\ decErr # "nil" => (DecDone /\ passes # <<>> /\ passes[Len(passes)].err = decErr)

\* C9 witness: the path pass failed while the request had a body and a query.
C9_Witness ==
    /\ DecDone /\ decErr # "nil"
    /\ PassNames = <<"uri">>
    /\ ctx.ContentLength > 0 /\ ctx.Query # EmptyMap

\* The passes that supply field i: the field carries the tag of the pass and
\* the source of the pass has a member of that name.
Supplies(p, i) ==
    CASE p = "uri" -> itype[i].uri # "" /\ itype[i].uri \in DOMAIN ctx.Params
      [] p = "body" ->
            /\ ctx.ContentLength > 0
            /\ IF ctx.ContentType = "application/json"
               THEN itype[i].json # "" /\ itype[i].json \in DOMAIN ctx.Body.m
               ELSE itype[i].form # "" /\ itype[i].form \in DOMAIN ctx.Body.m
      [] OTHER -> itype[i].form # "" /\ itype[i].form \in DOMAIN ctx.Query

\* The value the source of pass p has for field i.
Supplied(p, i) ==
    CASE p = "uri" -> ctx.Params[itype[i].uri]
      [] p = "body" ->
            IF ctx.ContentType = "application/json"
            THEN ctx.Body.m[itype[i].json] ELSE ctx.Body.m[itype[i].form]
      [] OTHER -> ctx.Query[itype[i].form]

Suppliers(i) == { n \in 1..Len(PassOrder) : Supplies(PassOrder[n], i) }

\* No pass of the request can fail: every value is an integer, the body is
\* well-formed, no field is required.
NoBindFailure ==
    /\ \A k \in DOMAIN ctx.Params : IsInt(ctx.Params[k])
    /\ \A k \in DOMAIN ctx.Query : IsInt(ctx.Query[k])
    /\ \A k \in DOMAIN ctx.Body.m : IsInt(ctx.Body.m[k])
    /\ ctx.Body.ok
    /\ \A i \in 1..Len(itype) : ~itype[i].required

\* C10: a field supplied by more than one source raises no error of its own
\* (a request none of whose passes can fail decodes without error), and the
\* decoded field holds the value of the last of its sources in the order
\* path, body, query.
C10_LaterPassWins ==
    DecDone =>
        /\ NoBindFailure => decErr = "nil"
        /\ decErr = "nil" =>
             \A i \in 1..Len(itype) :
                Cardinality(Suppliers(i)) >= 2 =>
                    LET last == CHOOSE n \in Suppliers(i) : \A m \in Suppliers(i) : m <= n
                    IN  ToString(args[i]) = Supplied(PassOrder[last], i)

\* C10 witness: a field supplied by the path, the body and the query holds
\* the query's value, and a field supplied by path and body the body's.
C10_Witness ==
    /\ DecDone /\ decErr = "nil"
    /\ \E i \in 1..Len(itype) : Suppliers(i) = {1, 2, 3} /\ args[i] = 3
    /\ \E i \in 1..Len(itype) : Suppliers(i) = {1, 2} /\ args[i] = 2

\* The fields of I that only the body supplies, and whether one is required.
BodyOnly(i) == itype[i].json # "" /\ itype[i].uri = "" /\ itype[i].form = ""

RequiresBody == \E i \in 1..Len(itype) : BodyOnly(i) /\ itype[i].required

\* C11 (as claimed): with a Content-Length of zero and a type that requires
\* body fields, DefaultDecoder returns no error, does not run the body pass
\* and leaves the body fields at zero, whatever URI parameters and query
\* string the request has.
C11_NoErrorWithoutBody ==
    (DecDone /\ ctx.ContentLength = 0 /\ RequiresBody) =>
        /\ decErr = "nil"
        /\ \A n \in 1..Len(passes) : passes[n].pass # "body"
        /\ \A i \in 1..Len(itype) : BodyOnly(i) => args[i] = 0

\* C11 (amended): with a Content-Length of zero and a struct type that
\* requires body fields, the body pass is not run and the body fields stay at
\* zero; DefaultDecoder returns no error exactly when the request has neither
\* URI parameters nor a query string (the path or query pass that runs
\* otherwise fails, at the latest when it validates the whole struct).
C11_NoErrorIffNoPassRuns ==
    (ctx.ContentLength = 0 /\ RequiresBody) =>
        /\ \A n \in 1..Len(passes) : passes[n].pass # "body"
        /\ \A i \in 1..Len(itype) : BodyOnly(i) => args[i] = 0
        /\ DecDone => (decErr = "nil" <=> (ctx.Params = EmptyMap /\ ctx.Query = EmptyMap))

\* C11 witness: a type with a path field and a required body field was
\* decoded from a request with no body, no URI parameter and no query.
C11_Witness ==
    /\ DecDone /\ decErr = "nil" /\ passes = <<>>
    /\ ctx.ContentLength = 0 /\ ctx.Params = EmptyMap /\ ctx.Query = EmptyMap
    /\ RequiresBody
    /\ \E i \in 1..Len(itype) : itype[i].uri # ""
    /\ \A i \in 1..Len(itype) : args[i] = 0

(***************************************************************************)
(* The round trip: a struct is encoded by the client, the request travels  *)
(* to the server and is decoded there into the same struct type.  The type *)
(* carries, for each field, the server's tag next to the client's under    *)
(* the same name (model.go: `uri:"id" path:"id"`, `form:"page"             *)
(* query:"page"`).                                                         *)
(***************************************************************************)
ServerField(f) ==
    LET t == FirstTag(f)
        n == KeyOf(f, t)
    IN  IF ~f.exported THEN NoBind
        ELSE [uri |-> IF t = "path" THEN n ELSE "",
              form |-> IF t \in {"query", "form"} THEN n ELSE "",
              header |-> IF t = "header" THEN n ELSE "",
              json |-> IF t = "json" /\ n # "-" THEN n ELSE "",
              required |-> FALSE]

ServerType(in) == [i \in 1..Len(in.fields) |-> ServerField(in.fields[i])]

\* The members of a JSON document as the decoder sees them: a null member
\* leaves its field as it is (encoding/json), as an absent one does.
JsonMembers(json) ==
    LET present == { p \in json : p[2] # "null" } IN
    [k \in { p[1] : p \in present } |-> (CHOOSE p \in present : p[1] = k)[2]]

\* req.Execute(method, url) and gin's routing: the path parameters fill the
\* placeholders of the URL and come back as the parameters of the route, the
\* query parameters make the query string, the body is marshalled as JSON.
Received(r) ==
    LET w == WireBody(r.Body) IN
    [Params |-> r.PathParams, Query |-> r.QueryParams, Header |-> r.Header,
     ContentLength |-> IF w.sent THEN 1 ELSE 0,
     ContentType |-> IF w.sent THEN "application/json" ELSE "",
     Body |-> IF w.sent THEN [len |-> 1, ok |-> TRUE, m |-> JsonMembers(w.json)]
              ELSE EmptyBody]

RtInit == Init /\ input.target = "struct" /\ ~input.ptr

Transmit ==
    /\ encPc = "done" /\ encErr = "nil" /\ decPc = "idle"
    /\ itype' = ServerType(input)
    /\ ctx' = Received(req)
    /\ args' = ZeroArgs(ServerType(input))
    /\ passes' = <<>>
    /\ decErr' = "nil"
    /\ decPc' = "uri"
    /\ UNCHANGED <<encVars, pipeVars, fsVars>>

RtNext == Encode \/ Transmit \/ BindUri \/ BindBody \/ BindQuery

RoundTripSpec == RtInit /\ [][RtNext]_vars

\* The value of a field of the original: a nil pointer is the zero value.
Original(f) == IF f.kind = "nilptr" THEN 0 ELSE f.v

\* The fields the round trip is about: exported, classified by a tag, and not
\* excluded from the body by the json name "-".
Classified(f) ==
    f.exported /\ Dest(f) # "none" /\ KeyOf(f, FirstTag(f)) # "-"

\* C12 (as claimed): decoding the encoded request into the same struct type
\* succeeds and gives every tag-classified field (path, query/form, header,
\* body) the value it had in the original.
C12_RoundTrip ==
    (EncDone /\ DecDone) =>
        /\ decErr = "nil"
        /\ \A i \in FieldIdx :
             Classified(input.fields[i]) => args[i] = Original(input.fields[i])

(***************************************************************************)
(* Options.  An option is a function that stores one function in one slot  *)
(* of the options struct; mergeOptions starts from the defaults and applies*)
(* the options in the order given.  Functions are known by name: the       *)
(* defaults of this repository, and custom ones as its tests write them.   *)
(***************************************************************************)
MaxOptions == 2     \* options given to WrapHandler / NewClient

MaxCalls == 2       \* invocations of one wrapped function in flight at once

MaxUserId == 3      \* the fullstack store hands out user ids up to this one

WithDecoder(f) == [slot |-> "decoder", fn |-> f]

WithEncoder(f) == [slot |-> "encoder", fn |-> f]

WithErrorHandler(f) == [slot |-> "errorHandler", fn |-> f]

\* The options struct literal mergeOptions starts from.
Defaults(side) ==
    IF side = "server"
    THEN [decoder |-> "DefaultDecoder", encoder |-> "DefaultEncoder",
          errorHandler |-> "DefaultErrorHandler"]
    ELSE [decoder |-> "DefaultResponseDecoder", encoder |-> "DefaultRequestEncoder",
          errorHandler |-> "DefaultErrorHandler"]

\* An option that only fills a slot still holding its default.
ApplyOption_FirstWins(opts, opt) ==
    IF opts[opt.slot] \in {"DefaultDecoder", "DefaultEncoder", "DefaultErrorHandler",
                           "DefaultResponseDecoder", "DefaultRequestEncoder"}
    THEN [opts EXCEPT ![opt.slot] = opt.fn]
    ELSE opts

\* opt(&opts)
ApplyOption(opts, opt) == [opts EXCEPT ![opt.slot] = opt.fn]

RECURSIVE ApplyOptions(_, _, _)
ApplyOptions(options, i, opts) ==
    IF i > Len(options) THEN opts
    ELSE ApplyOptions(options, i + 1, ApplyOption(opts, options[i]))

mergeOptions(side, options) == ApplyOptions(options, 1, Defaults(side))

\* The custom functions of the server tests: a decoder that returns a fixed
\* value without reading the request, one that fails, one that returns a
\* value of another type; an encoder that wraps the output, one that fails;
\* an error handler that answers 400.
SrvOptions ==
    { WithDecoder(f) : f \in {"fixedDecoder", "failingDecoder", "wrongTypeDecoder"} }
    \cup { WithEncoder(f) : f \in {"customEncoder", "failingEncoder"} }
    \cup { WithErrorHandler("customErrorHandler") }

OptionLists(O) == UNION { [1..n -> O] : n \in 0..MaxOptions }

(***************************************************************************)
(* Go values crossing the `any` boundary: the dynamic type and the value.  *)
(***************************************************************************)
NoValue == [type |-> "none", v |-> <<>>]

NilValue == [type |-> "nil", v |-> <<>>]

EmptyStruct == [type |-> "struct{}", v |-> <<>>]

\* A nil pointer as the output of a business function whose O is a pointer.
NilOutput == [type |-> "*O", v |-> <<>>]

\* A type assertion that never fails.
TypeAssert_AlwaysOk(val, tname) == TRUE

\* x, ok := val.(T): ok when the dynamic type of val is T.
TypeAssert(val, tname) == val.type = tname

ErrDecoderReturnedWrongType == "decoder returned wrong type"

(***************************************************************************)
(* The server pipeline.                                                    *)
(***************************************************************************)
PassAt(pc, c, t, a) ==
    CASE pc = "uri" -> UriPass(c, t, a)
      [] pc = "body" -> BodyPass(c, t, a)
      [] OTHER -> QueryPass(c, t, a)

\* DefaultDecoder as one call: the passes from `pc` on.
RECURSIVE RunPasses(_, _, _, _)
RunPasses(pc, c, t, a) ==
    LET r == PassAt(pc, c, t, a)
        n == NextPc(pc, r.err)
    IN  IF n = "done" THEN [args |-> r.args, err |-> r.err]
        ELSE RunPasses(n, c, t, r.args)

DefaultDecoder(c, t) == RunPasses("uri", c, t, ZeroArgs(t))

\* The value the fixed decoder of the tests returns.
FixedArgs(t) == [i \in 1..Len(t) |-> 3]

\* decoder(c): the value returned as `any`, and the error.
RunDecoder(fn, c, t, tname) ==
    CASE fn = "DefaultDecoder" ->
            LET r == DefaultDecoder(c, t) IN [val |-> [type |-> tname, v |-> r.args], err |-> r.err]
      [] fn = "fixedDecoder" -> [val |-> [type |-> tname, v |-> FixedArgs(t)], err |-> "nil"]
      [] fn = "failingDecoder" -> [val |-> NilValue, err |-> "custom decode error"]
      [] OTHER -> [val |-> [type |-> "other", v |-> <<>>], err |-> "nil"]

\* The business functions of the tests: one that answers with its input,
\* one that fails, one that answers with a nil pointer.
Business(h, a) ==
    CASE h = "echo" -> [out |-> [type |-> "O", v |-> a], err |-> "nil"]
      [] h = "failing" -> [out |-> [type |-> "O", v |-> <<>>], err |-> "test error"]
      [] OTHER -> [out |-> NilOutput, err |-> "nil"]

\* An adapter of WrapAction / WrapConsumer that drops the error of h.
Invoke_DropsError(shape, h, a) ==
    CASE shape = "Full" -> Business(h, a)
      [] shape = "Getter" -> Business(h, <<>>)
      [] OTHER -> [out |-> EmptyStruct, err |-> "nil"]

\* The handler WrapHandler is given: h itself, or the function literal
\* WrapGetter, WrapConsumer and WrapAction put around h.
Invoke(shape, h, a) ==
    CASE shape = "Full" -> Business(h, a)
      [] shape = "Getter" -> Business(h, <<>>)
      [] shape = "Consumer" -> [out |-> EmptyStruct, err |-> Business(h, a).err]
      [] OTHER -> [out |-> EmptyStruct, err |-> Business(h, <<>>).err]

\* json.Marshal of an output value.
JSON(x) == [null |-> x \in {NilValue, NilOutput}, doc |-> x.v]

\* c.JSON(status, obj)
Write(status, body) == <<[status |-> status, body |-> body]>>

\* encoder(c, output): what it writes, and the error.
RunEncoder(fn, output) ==
    CASE fn = "DefaultEncoder" -> [writes |-> Write(200, JSON(output)), err |-> "nil"]
      [] fn = "customEncoder" ->
            [writes |-> Write(200, [code |-> "SUCCESS", data |-> JSON(output)]), err |-> "nil"]
      [] OTHER -> [writes |-> <<>>, err |-> "invalid type"]

\* An error handler that answers 400.
RunErrorHandler_BadRequest(fn, err) ==
    IF err = "nil" THEN <<>> ELSE Write(400, [error |-> err])

\* errHandler(c, err): what it writes.
RunErrorHandler(fn, err) ==
    CASE fn = "DefaultErrorHandler" ->
            IF err = "nil" THEN <<>> ELSE Write(500, [error |-> err])
      [] OTHER -> Write(400, [code |-> "CUSTOM_ERROR", message |-> err])

\* A pipeline that goes on to the next stage after a failed decode.
SrvNextPc_IgnoreDecodeError(pc, failed) ==
    IF failed /\ pc # "decode" THEN "error"
    ELSE CASE pc = "decode" -> "assert"
           [] pc = "assert" -> "handle"
           [] pc = "handle" -> "encode"
           [] OTHER -> "done"

\* Where the gin handler goes after a stage: to `errHandler(c, err); return`
\* when the stage failed, to the next stage otherwise.
SrvNextPc(pc, failed) ==
    IF failed THEN "error"
    ELSE CASE pc = "decode" -> "assert"
           [] pc = "assert" -> "handle"
           [] pc = "handle" -> "encode"
           [] OTHER -> "done"

\* An entry of the trace of an invocation: a function of the pipeline was
\* called and returned this error (the error handler: was given it).
Stage(name, err) == [stage |-> name, err |-> err]

\* One invocation of the gin handler, at its start.
NewSrvCall(c) ==
    [pc |-> "decode", c |-> c, argAny |-> NoValue, args |-> NoValue, output |-> NoValue,
     encIn |-> NoValue, err |-> "nil", reported |-> <<>>, writes |-> <<>>, trace |-> <<>>]

\* argAny, err := decoder(c)
SrvDecode(k) ==
    /\ wrapped.side = "server" /\ calls[k].pc = "decode"
    /\ LET r == RunDecoder(wrapped.opts.decoder, calls[k].c, wrapped.I, "I") IN
        calls' = [calls EXCEPT ![k].argAny = r.val, ![k].err = r.err,
                               ![k].trace = Append(@, Stage("decoder", r.err)),
                               ![k].pc = SrvNextPc("decode", r.err # "nil")]
    /\ UNCHANGED <<wrapped, encVars, decVars, fsVars>>

\* args, ok := argAny.(I)
SrvAssert(k) ==
    /\ wrapped.side = "server" /\ calls[k].pc = "assert"
    /\ LET ok == TypeAssert(calls[k].argAny, "I") IN
        calls' = [calls EXCEPT ![k].args = IF ok THEN calls[k].argAny ELSE @,
                               ![k].err = IF ok THEN @ ELSE ErrDecoderReturnedWrongType,
                               ![k].pc = SrvNextPc("assert", ~ok)]
    /\ UNCHANGED <<wrapped, encVars, decVars, fsVars>>

\* output, err := h(c.Request.Context(), args)
SrvHandle(k) ==
    /\ wrapped.side = "server" /\ calls[k].pc = "handle"
    /\ LET r == Invoke(wrapped.shape, wrapped.h, calls[k].args.v) IN
        calls' = [calls EXCEPT ![k].output = r.out, ![k].err = r.err,
                               ![k].trace = Append(@, Stage("handler", r.err)),
                               ![k].pc = SrvNextPc("handle", r.err # "nil")]
    /\ UNCHANGED <<wrapped, encVars, decVars, fsVars>>

\* err := encoder(c, output)
SrvEncode(k) ==
    /\ wrapped.side = "server" /\ calls[k].pc = "encode"
    /\ LET r == RunEncoder(wrapped.opts.encoder, calls[k].output) IN
        calls' = [calls EXCEPT ![k].encIn = calls[k].output, ![k].err = r.err,
                               ![k].writes = @ \o r.writes,
                               ![k].trace = Append(@, Stage("encoder", r.err)),
                               ![k].pc = SrvNextPc("encode", r.err # "nil")]
    /\ UNCHANGED <<wrapped, encVars, decVars, fsVars>>

\* An error branch without its `return`: after the error handler the gin
\* handler goes on to the encoder, when that has not run yet.
SrvError_NoReturn(k) ==
    /\ wrapped.side = "server" /\ calls[k].pc = "error"
    /\ calls' = [calls EXCEPT ![k].reported = Append(@, calls[k].err),
                              ![k].writes = @ \o RunErrorHandler(wrapped.opts.errorHandler,
                                                                 calls[k].err),
                              ![k].trace = Append(@, Stage("errorHandler", calls[k].err)),
                              ![k].pc = IF \E n \in 1..Len(calls[k].trace) :
                                                calls[k].trace[n].stage = "encoder"
                                        THEN "done" ELSE "encode"]
    /\ UNCHANGED <<wrapped, encVars, decVars, fsVars>>

\* errHandler(c, err); return
SrvError(k) ==
    /\ wrapped.side = "server" /\ calls[k].pc = "error"
    /\ calls' = [calls EXCEPT ![k].reported = Append(@, calls[k].err),
                              ![k].writes = @ \o RunErrorHandler(wrapped.opts.errorHandler,
                                                                 calls[k].err),
                              ![k].trace = Append(@, Stage("errorHandler", calls[k].err)),
                              ![k].pc = "done"]
    /\ UNCHANGED <<wrapped, encVars, decVars, fsVars>>

\* The input types of the server tests: TestURIRequest, TestRequest,
\* TestCombinedRequest; struct{} for the shapes without input.
SrvTypes(shape) ==
    IF shape \in {"Getter", "Action"} THEN { <<>> }
    ELSE { <<[NoBind EXCEPT !.uri = "id", !.required = TRUE]>>,
           <<[NoBind EXCEPT !.json = "n", !.required = TRUE]>>,
           <<[NoBind EXCEPT !.uri = "id"], [NoBind EXCEPT !.json = "n"]>> }

\* The business functions a shape takes: those without output cannot answer
\* with a nil pointer.
SrvHandlers(shape) ==
    IF shape \in {"Consumer", "Action"} THEN {"echo", "failing"}
    ELSE {"echo", "failing", "nilOutput"}

Shapes == {"Full", "Getter", "Consumer", "Action"}

\* WrapHandler, WrapGetter, WrapConsumer, WrapAction: what the returned gin
\* handler has captured.
WrapHandler(shape, t, h, options) ==
    [side |-> "server", shape |-> shape, I |-> t, h |-> h, options |-> options,
     opts |-> mergeOptions("server", options)]

\* The requests of the pipeline: a JSON body or none, no query string.
SrvRequests ==
    { r \in Requests :
        /\ r.Query = EmptyMap
        /\ r.ContentLength >= 0
        /\ r.ContentType # "application/x-www-form-urlencoded"
        /\ r.Body.m \in {EmptyMap, [k \in {"n"} |-> "2"]} }

SrvInit ==
    /\ \E shape \in Shapes : \E t \in SrvTypes(shape) : \E h \in SrvHandlers(shape) :
       \E options \in OptionLists(SrvOptions) :
          wrapped = WrapHandler(shape, t, h, options)
    /\ calls \in [1..1 -> { NewSrvCall(c) : c \in SrvRequests }]
    /\ EncIdle
    /\ DecIdle
    /\ FsIdle

SrvNext ==
    \/ \E k \in DOMAIN calls : SrvDecode(k)
    \/ \E k \in DOMAIN calls : SrvAssert(k)
    \/ \E k \in DOMAIN calls : SrvHandle(k)
    \/ \E k \in DOMAIN calls : SrvEncode(k)
    \/ \E k \in DOMAIN calls : SrvError(k)

ServerSpec == SrvInit /\ [][SrvNext]_vars

(***************************************************************************)
(* What the claims about the server pipeline speak of.                     *)
(***************************************************************************)
CallIds == DOMAIN calls

SrvDone(k) == wrapped.side = "server" /\ calls[k].pc = "done"

\* The stages of the trace of call k, by name.
StageNames(k) == [n \in 1..Len(calls[k].trace) |-> calls[k].trace[n].stage]

\* C14: the handler is called only second, after a decoder that returned no
\* error and a value of type I, and with that value; the encoder is called
\* only third, after a handler that returned no error, and with the output
\* of the handler.
C14_DecodeHandleEncode ==
    wrapped.side = "server" =>
        \A k \in CallIds :
            LET tr == calls[k].trace IN
            \A n \in 1..Len(tr) :
                /\ tr[n].stage = "decoder" => n = 1
                /\ tr[n].stage = "handler" =>
                     /\ n = 2
                     /\ tr[1] = Stage("decoder", "nil")
                     /\ calls[k].argAny.type = "I"
                     /\ calls[k].args = calls[k].argAny
                /\ tr[n].stage = "encoder" =>
                     /\ n = 3
                     /\ tr[2] = Stage("handler", "nil")
                     /\ calls[k].encIn = calls[k].output
                     /\ calls[k].output =
                          Invoke(wrapped.shape, wrapped.h, calls[k].argAny.v).out

\* C14 witness: a request with a path parameter and a body went through the
\* default decoder, the handler and the encoder, in this order.
C14_Witness ==
    /\ wrapped.side = "server" /\ wrapped.shape = "Full"
    /\ wrapped.opts.decoder = "DefaultDecoder" /\ wrapped.h = "echo"
    /\ \E k \in CallIds :
         /\ SrvDone(k)
         /\ StageNames(k) = <<"decoder", "handler", "encoder">>
         /\ calls[k].encIn = [type |-> "O", v |-> <<1, 2>>]

\* The first stage of call k that failed (0 when none did).
FirstFailed(k) ==
    LET tr == calls[k].trace
        F == { n \in 1..Len(tr) : tr[n].stage # "errorHandler" /\ tr[n].err # "nil" }
    IN  IF F = {} THEN 0 ELSE CHOOSE n \in F : \A m \in F : n <= m

DefaultAnswers ==
    /\ wrapped.side = "server"
    /\ wrapped.opts.encoder = "DefaultEncoder"
    /\ wrapped.opts.errorHandler = "DefaultErrorHandler"

\* C15: with the default encoder and error handler, a request whose decode
\* and handler succeed is answered 200 with the JSON of the output (null for
\* a nil pointer), and one whose decode or handler fails is answered 500 with
\* a JSON body carrying the message of that error.
C15_DefaultAnswers ==
    DefaultAnswers =>
        \A k \in CallIds : SrvDone(k) =>
            LET tr == calls[k].trace IN
            /\ (Len(tr) >= 2 /\ tr[1] = Stage("decoder", "nil") /\ tr[2] = Stage("handler", "nil"))
                 => /\ calls[k].writes = Write(200, JSON(calls[k].output))
                    /\ calls[k].output = NilOutput => calls[k].writes[1].body.null
            /\ FirstFailed(k) # 0
                 => calls[k].writes = Write(500, [error |-> tr[FirstFailed(k)].err])

\* C15 witness: the default decoder failed on a request and the request was
\* answered 500 with the message of the binding error.
C15_Witness ==
    /\ DefaultAnswers /\ wrapped.opts.decoder = "DefaultDecoder"
    /\ \E k \in CallIds :
         /\ SrvDone(k)
         /\ StageNames(k) = <<"decoder", "errorHandler">>
         /\ calls[k].writes = Write(500, [error |-> "validation error"])

(***************************************************************************)
(* The client pipeline.  The transport answers a request with a transport  *)
(* error or with a response: a status and a body that is empty, a JSON     *)
(* object, or bytes that do not unmarshal into the output type.            *)
(***************************************************************************)
NoResponse == [status |-> 0, body |-> "empty"]

\* The results of req.Execute(method, url).
Outcomes ==
    { [resp |-> NoResponse, err |-> "transport error"] }
    \cup { [resp |-> [status |-> 200, body |-> b], err |-> "nil"] :
             b \in {"empty", "object", "invalid"} }
    \cup { [resp |-> r, err |-> "nil"] :
             r \in { [status |-> 400, body |-> "object"], [status |-> 500, body |-> "empty"] } }

\* resp.IsError(): a status above 399.
IsError(resp) == resp.status > 399

\* resp.Status()
Status(resp) ==
    CASE resp.status = 200 -> "200 OK"
      [] resp.status = 400 -> "400 Bad Request"
      [] resp.status = 404 -> "404 Not Found"
      [] resp.status = 500 -> "500 Internal Server Error"
      [] OTHER -> ""

\* The zero value of the output type: `var zero O`.
ZeroOutput == [type |-> "O", v |-> <<>>]

\* The value a JSON object unmarshals to: struct{} has no field to fill.
Unmarshal(otype) == [type |-> "O", v |-> IF otype = "struct{}" THEN <<>> ELSE <<1>>]

\* A value of static type O returned as `any`: the nil value of an interface
\* type becomes the nil `any`, which has no dynamic type; every other value
\* keeps its type.
Boxed(otype, x) == IF otype = "any" /\ x = ZeroOutput THEN NilValue ELSE x

\* DefaultResponseDecoder[O]
DefaultResponseDecoder(resp, otype) ==
    IF resp.body = "empty" THEN [val |-> Boxed(otype, ZeroOutput), err |-> "nil"]
    ELSE IF resp.body = "invalid" THEN [val |-> NilValue, err |-> "unmarshal error"]
    ELSE [val |-> Unmarshal(otype), err |-> "nil"]

\* opts.decoder(resp): the default, or a custom decoder of the tests: one
\* that returns a fixed value, one that fails, one that returns a value of
\* another type.
RunRespDecoder(fn, resp, otype) ==
    CASE fn = "DefaultResponseDecoder" -> DefaultResponseDecoder(resp, otype)
      [] fn = "fixedDecoder" -> [val |-> [type |-> "O", v |-> <<3>>], err |-> "nil"]
      [] fn = "failingDecoder" -> [val |-> ZeroOutput, err |-> "custom decode error"]
      [] OTHER -> [val |-> [type |-> "other", v |-> <<>>], err |-> "nil"]

\* A default error handler that does not look at the status.
DefaultCliErrorHandler_IgnoresStatus(resp, err) == err

\* DefaultErrorHandler of the client.
DefaultCliErrorHandler(resp, err) ==
    IF err # "nil" THEN err
    ELSE IF IsError(resp) THEN Status(resp)
    ELSE "nil"

\* opts.errorHandler(resp, err): the default, or the custom handler of the
\* tests, which builds its error from the body of an error response.
RunCliErrorHandler(fn, resp, err) ==
    CASE fn = "DefaultErrorHandler" -> DefaultCliErrorHandler(resp, err)
      [] OTHER -> IF err # "nil" THEN err
                  ELSE IF IsError(resp) THEN "VALIDATION_ERROR: invalid input"
                  ELSE "nil"

\* opts.encoder(req, input): the default, the custom encoder of the tests
\* (a header and the whole input as body), or one that fails.
RunReqEncoder(fn, r, in) ==
    CASE fn = "DefaultRequestEncoder" -> DefaultRequestEncoder(r, in)
      [] fn = "customEncoder" ->
            [req |-> SetBodyInput([r EXCEPT !.Header = Put(@, "X-Custom-Header", "custom-value")],
                                  in),
             err |-> "nil"]
      [] OTHER -> [req |-> r, err |-> "encode error"]

CliOptions ==
    { WithEncoder(f) : f \in {"customEncoder", "failingEncoder"} }
    \cup { WithDecoder(f) : f \in {"fixedDecoder", "failingDecoder", "wrongTypeDecoder"} }
    \cup { WithErrorHandler("customErrorHandler") }

\* The struct{}{} NewGetter and NewAction hand to the Full-shape client.
EmptyStructInput == StructInput(FALSE, <<>>)

\* The inputs of the client tests: struct{}, a path parameter, a path
\* parameter with a body field, a nil pointer.
CliInputs ==
    { EmptyStructInput,
      StructInput(FALSE, <<PlainField([NoTags EXCEPT !.path = "id"], 1)>>),
      StructInput(FALSE, <<PlainField([NoTags EXCEPT !.path = "id"], 1),
                           PlainField([NoTags EXCEPT !.json = "a"], 1)>>),
      [NilInput EXCEPT !.ptr = TRUE] }

\* NewClient, NewGetter, NewConsumer, NewAction: what the returned function
\* has captured.  I and O are struct{} where the shape has no input / output.
NewClient(shape, options) ==
    [side |-> "client", shape |-> shape, options |-> options,
     O |-> IF shape \in {"Consumer", "Action"} THEN "struct{}" ELSE "TestResponse",
     opts |-> mergeOptions("client", options)]

\* Wrappers that hand nil to the Full-shape function where they have no
\* input of their own.
FullInput_Nil(shape, arg) == arg

\* The input the Full-shape function is called with.
FullInput(shape, arg) == IF shape \in {"Getter", "Action"} THEN EmptyStructInput ELSE arg

\* A wrapper that returns nil whatever the Full-shape function returned.
Returned_DropsError(shape, full) ==
    IF shape \in {"Consumer", "Action"} THEN [err |-> "nil"] ELSE full

\* What the wrapped function returns to its caller: with NewConsumer and
\* NewAction, `_, err := handler(...); return err`.
Returned(shape, full) ==
    IF shape \in {"Consumer", "Action"} THEN [err |-> full.err] ELSE full

\* A client that executes the request even though the encoder failed.
CliNextPc_IgnoreEncodeError(pc, failed) ==
    IF failed /\ pc # "encode" THEN "return"
    ELSE CASE pc = "encode" -> "execute"
           [] pc = "execute" -> "errorHandler"
           [] pc = "errorHandler" -> "decode"
           [] pc = "decode" -> "assert"
           [] OTHER -> "return"

\* Where the client function goes after a step: to `return zero, err` when
\* it failed, to the next step otherwise.
CliNextPc(pc, failed) ==
    IF failed THEN "return"
    ELSE CASE pc = "encode" -> "execute"
           [] pc = "execute" -> "errorHandler"
           [] pc = "errorHandler" -> "decode"
           [] pc = "decode" -> "assert"
           [] OTHER -> "return"

\* One request kept in the closure and handed to every call: a call finds in
\* it what an earlier call has set.
NewRequest_Shared(cs, k) ==
    IF \E j \in DOMAIN cs : j # k /\ cs[j].req # FreshRequest
    THEN cs[CHOOSE j \in DOMAIN cs : j # k /\ cs[j].req # FreshRequest].req
    ELSE FreshRequest

\* restyClient.R().SetContext(ctx): a request of its own for every call.
NewRequest(cs, k) == FreshRequest

\* One invocation of the client function, at its start.
NewCliCall(shape, arg) ==
    [pc |-> "encode", arg |-> arg, input |-> FullInput(shape, arg), req |-> FreshRequest,
     resp |-> NoResponse, resultAny |-> NoValue, result |-> ZeroOutput, err |-> "nil",
     executes |-> 0, full |-> [out |-> NoValue, err |-> "nil"], ret |-> [err |-> "pending"],
     trace |-> <<>>]

\* req := restyClient.R().SetContext(ctx); err := opts.encoder(req, input)
CliEncode(k) ==
    /\ wrapped.side = "client" /\ calls[k].pc = "encode"
    /\ LET r == RunReqEncoder(wrapped.opts.encoder, NewRequest(calls, k), calls[k].input) IN
        calls' = [calls EXCEPT ![k].req = r.req, ![k].err = r.err,
                               ![k].trace = Append(@, Stage("encoder", r.err)),
                               ![k].pc = CliNextPc("encode", r.err # "nil")]
    /\ UNCHANGED <<wrapped, encVars, decVars, fsVars>>

\* resp, err := req.Execute(method, url)
CliExecute(k) ==
    /\ wrapped.side = "client" /\ calls[k].pc = "execute"
    /\ \E o \in Outcomes :
        calls' = [calls EXCEPT ![k].resp = o.resp, ![k].err = o.err,
                               ![k].executes = @ + 1,
                               ![k].trace = Append(@, Stage("Execute", o.err)),
                               ![k].pc = CliNextPc("execute", FALSE)]
    /\ UNCHANGED <<wrapped, encVars, decVars, fsVars>>

\* err := opts.errorHandler(resp, err)
CliHandleError(k) ==
    /\ wrapped.side = "client" /\ calls[k].pc = "errorHandler"
    /\ LET e == RunCliErrorHandler(wrapped.opts.errorHandler, calls[k].resp, calls[k].err) IN
        calls' = [calls EXCEPT ![k].err = e,
                               ![k].trace = Append(@, Stage("errorHandler", e)),
                               ![k].pc = CliNextPc("errorHandler", e # "nil")]
    /\ UNCHANGED <<wrapped, encVars, decVars, fsVars>>

\* resultAny, err := opts.decoder(resp)
CliDecode(k) ==
    /\ wrapped.side = "client" /\ calls[k].pc = "decode"
    /\ LET r == RunRespDecoder(wrapped.opts.decoder, calls[k].resp, wrapped.O) IN
        calls' = [calls EXCEPT ![k].resultAny = r.val, ![k].err = r.err,
                               ![k].trace = Append(@, Stage("decoder", r.err)),
                               ![k].pc = CliNextPc("decode", r.err # "nil")]
    /\ UNCHANGED <<wrapped, encVars, decVars, fsVars>>

\* result, ok := resultAny.(O)
CliAssert(k) ==
    /\ wrapped.side = "client" /\ calls[k].pc = "assert"
    /\ LET ok == TypeAssert(calls[k].resultAny, "O") IN
        calls' = [calls EXCEPT ![k].result = IF ok THEN calls[k].resultAny ELSE @,
                               ![k].err = IF ok THEN @ ELSE ErrDecoderReturnedWrongType,
                               ![k].pc = CliNextPc("assert", ~ok)]
    /\ UNCHANGED <<wrapped, encVars, decVars, fsVars>>

\* return zero, err / return result, nil; and the return of the wrapper
\* around the Full-shape function.
CliReturn(k) ==
    /\ wrapped.side = "client" /\ calls[k].pc = "return"
    /\ LET full == [out |-> IF calls[k].err = "nil" THEN calls[k].result ELSE ZeroOutput,
                    err |-> calls[k].err] IN
        calls' = [calls EXCEPT ![k].full = full,
                               ![k].ret = Returned(wrapped.shape, full),
                               ![k].pc = "done"]
    /\ UNCHANGED <<wrapped, encVars, decVars, fsVars>>

\* The arguments a caller can give the wrapped function of a shape.
CliInit ==
    /\ \E shape \in Shapes : \E options \in OptionLists(CliOptions) :
          /\ wrapped = NewClient(shape, options)
          /\ calls \in [1..1 -> { NewCliCall(shape, a) :
                                    a \in IF shape \in {"Getter", "Action"} THEN { NilInput }
                                          ELSE CliInputs }]
    /\ EncIdle
    /\ DecIdle
    /\ FsIdle

CliNext ==
    \/ \E k \in DOMAIN calls : CliEncode(k)
    \/ \E k \in DOMAIN calls : CliExecute(k)
    \/ \E k \in DOMAIN calls : CliHandleError(k)
    \/ \E k \in DOMAIN calls : CliDecode(k)
    \/ \E k \in DOMAIN calls : CliAssert(k)
    \/ \E k \in DOMAIN calls : CliReturn(k)

ClientSpec == CliInit /\ [][CliNext]_vars

(***************************************************************************)
(* Both sides at once: a wrapped server handler or a wrapped client        *)
(* function, and one invocation of it.                                     *)
(***************************************************************************)
PipeInit == SrvInit \/ CliInit

PipeNext == SrvNext \/ CliNext

PipelineSpec == PipeInit /\ [][PipeNext]_vars

CliDone(k) == wrapped.side = "client" /\ calls[k].pc = "done"

\* How often a function of the pipeline was called in call k.
Count(k, name) ==
    Cardinality({ n \in 1..Len(calls[k].trace) : calls[k].trace[n].stage = name })

\* What the function h given to the wrapper returns for call k, called as
\* its shape calls it: with the decoded input, or with none.
Direct(k) ==
    IF wrapped.shape \in {"Full", "Consumer"} THEN Business(wrapped.h, calls[k].argAny.v)
    ELSE Business(wrapped.h, <<>>)

\* C13: a Getter, Consumer or Action is the Full shape with an empty input
\* and/or a discarded output.  On the server the input type of a Getter or
\* Action is struct{}, the pipeline runs once (no function of it is called
\* twice, the decoder once), the handler stage returns the error of h, the
\* encoder gets the output of h (Getter) or struct{}{} (Consumer, Action) and
\* the error handler the error of h.  On the client the Full-shape function
\* gets struct{}{} (Getter, Action) or the argument (Consumer), executes the
\* request at most once, and the wrapper returns exactly the error it
\* returned, with its output (Getter) or without (Consumer, Action).
C13_ArityWrappers ==
    \A k \in CallIds :
        /\ wrapped.side = "server" =>
             /\ wrapped.shape \in {"Getter", "Action"} => wrapped.I = <<>>
             /\ \A name \in {"decoder", "handler", "encoder", "errorHandler"} : Count(k, name) <= 1
             /\ SrvDone(k) => Count(k, "decoder") = 1
             /\ \A n \in 1..Len(calls[k].trace) :
                  calls[k].trace[n].stage = "handler" =>
                     /\ calls[k].trace[n].err = Direct(k).err
                     /\ calls[k].output =
                          IF wrapped.shape \in {"Full", "Getter"} THEN Direct(k).out
                          ELSE EmptyStruct
                     /\ (SrvDone(k) /\ Direct(k).err # "nil") =>
                          calls[k].reported = <<Direct(k).err>>
                     /\ (SrvDone(k) /\ Direct(k).err = "nil") =>
                          calls[k].encIn = calls[k].output
        /\ wrapped.side = "client" =>
             /\ calls[k].input =
                  IF wrapped.shape \in {"Getter", "Action"} THEN EmptyStructInput
                  ELSE calls[k].arg
             /\ \A name \in {"encoder", "Execute", "errorHandler", "decoder"} : Count(k, name) <= 1
             /\ calls[k].executes = Count(k, "Execute")
             /\ CliDone(k) =>
                  /\ Count(k, "encoder") = 1
                  /\ calls[k].ret.err = calls[k].full.err
                  /\ wrapped.shape \in {"Full", "Getter"} => calls[k].ret = calls[k].full
                  /\ wrapped.shape \in {"Consumer", "Action"} => DOMAIN calls[k].ret = {"err"}

\* C13 witness: an Action on the server whose h failed, answered through
\* the error handler with the error of h.
C13_Witness ==
    /\ wrapped.side = "server" /\ wrapped.shape = "Action" /\ wrapped.h = "failing"
    /\ \E k \in CallIds :
         /\ SrvDone(k)
         /\ StageNames(k) = <<"decoder", "handler", "errorHandler">>
         /\ calls[k].reported = <<"test error">>

(***************************************************************************)
(* What the claims about the client pipeline speak of.                     *)
(***************************************************************************)
\* The error a function of the pipeline returned in call k ("none" when it
\* was not called).
StageErr(k, name) ==
    LET tr == calls[k].trace
        S == { n \in 1..Len(tr) : tr[n].stage = name }
    IN  IF S = {} THEN "none" ELSE tr[CHOOSE n \in S : TRUE].err

\* C16: an error of the request encoder ends the call before Execute and is
\* returned with the zero output; otherwise the request is executed exactly
\* once, also when the transport fails.
C16_EncodeErrorAbortsExecuteOnce ==
    wrapped.side = "client" =>
        \A k \in CallIds :
            /\ calls[k].executes <= 1
            /\ calls[k].executes = Count(k, "Execute")
            /\ StageErr(k, "encoder") \notin {"none", "nil"} =>
                 /\ calls[k].executes = 0
                 /\ CliDone(k) =>
                      calls[k].full = [out |-> ZeroOutput, err |-> StageErr(k, "encoder")]
            /\ (CliDone(k) /\ StageErr(k, "encoder") = "nil") => calls[k].executes = 1

\* C16 witness: a call whose encoder failed returned without a request sent.
C16_Witness ==
    /\ wrapped.side = "client"
    /\ \E k \in CallIds :
         /\ CliDone(k)
         /\ calls[k].executes = 0
         /\ calls[k].full = [out |-> ZeroOutput, err |-> "encode error"]

\* C17: with the default error handler the call returns the transport error
\* unmodified; else, for an error status, the status text, the decoder not
\* having been called; a decode error only when neither occurred; each time
\* with the zero output.
C17_ErrorPrecedence ==
    (wrapped.side = "client" /\ wrapped.opts.errorHandler = "DefaultErrorHandler") =>
        \A k \in CallIds : (CliDone(k) /\ calls[k].executes = 1) =>
            LET transport == StageErr(k, "Execute")
                decode == StageErr(k, "decoder")
            IN
            /\ transport # "nil" =>
                 /\ calls[k].full = [out |-> ZeroOutput, err |-> transport]
                 /\ decode = "none"
            /\ (transport = "nil" /\ IsError(calls[k].resp)) =>
                 /\ calls[k].full = [out |-> ZeroOutput, err |-> Status(calls[k].resp)]
                 /\ decode = "none"
            /\ (transport = "nil" /\ ~IsError(calls[k].resp)) =>
                 /\ decode # "none"
                 /\ decode # "nil" => calls[k].full = [out |-> ZeroOutput, err |-> decode]

\* C17 witness: a 400 response came back as the error "400 Bad Request"
\* without the decoder being called.
C17_Witness ==
    /\ wrapped.side = "client" /\ wrapped.opts.errorHandler = "DefaultErrorHandler"
    /\ \E k \in CallIds :
         /\ CliDone(k)
         /\ calls[k].resp.status = 400
         /\ calls[k].full = [out |-> ZeroOutput, err |-> "400 Bad Request"]
         /\ StageErr(k, "decoder") = "none"

\* The decoder of call k returned no error and a value that is not of the
\* declared type.
WrongType(k) ==
    /\ StageErr(k, "decoder") = "nil"
    /\ IF wrapped.side = "server" THEN calls[k].argAny.type # "I"
       ELSE calls[k].resultAny.type # "O"

\* C18: when the decoder returns, without error, a value that is not of the
\* declared type, the client call returns the zero output with
\* ErrDecoderReturnedWrongType, and the server does not call the business
\* handler and gives the error handler that error.
C18_WrongTypeError ==
    \A k \in CallIds : WrongType(k) =>
        /\ wrapped.side = "client" =>
             /\ calls[k].result = ZeroOutput
             /\ CliDone(k) =>
                  calls[k].full = [out |-> ZeroOutput, err |-> ErrDecoderReturnedWrongType]
        /\ wrapped.side = "server" =>
             /\ Count(k, "handler") = 0 /\ Count(k, "encoder") = 0
             /\ SrvDone(k) => calls[k].reported = <<ErrDecoderReturnedWrongType>>

\* C18 witness: a server decoder returned a value of another type and the
\* request ended in the error handler without the handler being called.
C18_Witness ==
    /\ wrapped.side = "server"
    /\ \E k \in CallIds :
         /\ SrvDone(k) /\ WrongType(k)
         /\ StageNames(k) = <<"decoder", "errorHandler">>
         /\ calls[k].reported = <<ErrDecoderReturnedWrongType>>

\* The options of a list that fill a slot.
ForSlot(options, slot) == { n \in 1..Len(options) : options[n].slot = slot }

\* The function the options leave in a slot: that of the last option given
\* for the slot, the default when there is none.
Expected(side, options, slot) ==
    LET S == ForSlot(options, slot) IN
    IF S = {} THEN Defaults(side)[slot]
    ELSE options[CHOOSE n \in S : \A m \in S : m <= n].fn

\* C19: each slot holds the function of the last option given for it, or
\* the default; and a custom decoder / encoder runs instead of the default:
\* the fixed server decoder yields its value without error whatever the
\* request, and the custom client encoder sets its header and the whole
\* input as body, and no path parameter or query.
C19_LastOptionWins ==
    wrapped.side \in {"server", "client"} =>
        /\ \A slot \in {"decoder", "encoder", "errorHandler"} :
             wrapped.opts[slot] = Expected(wrapped.side, wrapped.options, slot)
        /\ \A k \in CallIds :
             /\ (wrapped.side = "server" /\ wrapped.opts.decoder = "fixedDecoder"
                   /\ Count(k, "decoder") = 1) =>
                  /\ calls[k].trace[1] = Stage("decoder", "nil")
                  /\ calls[k].argAny = [type |-> "I", v |-> FixedArgs(wrapped.I)]
             /\ (wrapped.side = "client" /\ wrapped.opts.encoder = "customEncoder"
                   /\ Count(k, "encoder") = 1) =>
                  /\ calls[k].req.PathParams = EmptyMap /\ calls[k].req.QueryParams = EmptyMap
                  /\ calls[k].req.Header = [h \in {"X-Custom-Header"} |-> "custom-value"]
                  /\ calls[k].req.Body = [kind |-> "input", m |-> EmptyMap, whole |-> calls[k].input]

\* C19 witness: of two decoder options the second was used, on a request the
\* default decoder fails on.
C19_Witness ==
    /\ wrapped.side = "server" /\ wrapped.h = "echo" /\ wrapped.shape = "Full"
    /\ wrapped.options = <<WithDecoder("failingDecoder"), WithDecoder("fixedDecoder")>>
    /\ \E k \in CallIds :
         /\ SrvDone(k)
         /\ DefaultDecoder(calls[k].c, wrapped.I).err # "nil"
         /\ calls[k].writes = Write(200, JSON([type |-> "O", v |-> FixedArgs(wrapped.I)]))


(***************************************************************************)
(* Concurrent invocations: gin runs the handler WrapHandler returned once  *)
(* per request, each in its own goroutine, and the function NewClient      *)
(* returned may be called from several goroutines.  The steps of the       *)
(* invocations interleave; what the closure captured is shared.            *)
(***************************************************************************)
\* The options of the wrapped function the invocations share: the defaults,
\* or a custom encoder.
ConcOptions(side) ==
    { <<>> } \cup
    { <<WithEncoder("customEncoder")>> }

\* The inputs of concurrent client calls: different path parameters, one
\* with a body field.
ConcInputs ==
    { StructInput(FALSE, <<PlainField([NoTags EXCEPT !.path = "id"], 1)>>),
      StructInput(FALSE, <<PlainField([NoTags EXCEPT !.path = "id"], 2),
                           PlainField([NoTags EXCEPT !.json = "a"], 1)>>) }

\* The requests of concurrent server calls: a path parameter, a path
\* parameter with a JSON body, a JSON body alone.
ConcRequests ==
    LET body == [ContentLength |-> 1, ContentType |-> "application/json",
                 Body |-> [len |-> 1, ok |-> TRUE, m |-> [k \in {"n"} |-> "2"]]] IN
    { r \in SrvRequests :
        \/ r.Params = [k \in {"id"} |-> "1"] /\ r.ContentLength = 0
        \/ /\ r.Params \in {EmptyMap, [k \in {"id"} |-> "1"]}
           /\ r.ContentLength = 1 /\ r.ContentType = body.ContentType /\ r.Body = body.Body }

ConcSrvInit ==
    /\ \E t \in SrvTypes("Full") : \E h \in {"echo", "failing"} :
       \E options \in ConcOptions("server") :
          wrapped = WrapHandler("Full", t, h, options)
    /\ calls \in [1..MaxCalls -> { NewSrvCall(c) : c \in ConcRequests }]
    /\ EncIdle
    /\ DecIdle
    /\ FsIdle

ConcCliInit ==
    /\ \E options \in ConcOptions("client") : wrapped = NewClient("Full", options)
    /\ calls \in [1..MaxCalls -> { NewCliCall("Full", a) : a \in ConcInputs }]
    /\ EncIdle
    /\ DecIdle
    /\ FsIdle

ConcInit == ConcSrvInit \/ ConcCliInit

ConcSpec == ConcInit /\ [][PipeNext]_vars

\* Call k has an envelope (client) / a decoded input (server) of its own.
Built(k) ==
    \/ wrapped.side = "client" /\ calls[k].pc # "encode"
    \/ wrapped.side = "server" /\ calls[k].pc # "decode"

\* What call k has built is what it builds when it runs alone: the encoder
\* applied to a request nobody has touched and the input of call k; the
\* decoder applied to the gin context of call k.  With the default encoder,
\* the path parameters are those of the call's own input.
OwnData(k) ==
    /\ wrapped.side = "client" /\ Built(k) =>
          /\ calls[k].req = RunReqEncoder(wrapped.opts.encoder, FreshRequest,
                                          calls[k].input).req
          /\ wrapped.opts.encoder = "DefaultRequestEncoder" =>
                calls[k].req.PathParams = StrMapOf(calls[k].input.fields, "path")
    /\ wrapped.side = "server" /\ Built(k) =>
          calls[k].argAny = RunDecoder(wrapped.opts.decoder, calls[k].c, wrapped.I, "I").val

\* A step is a step of one invocation: it leaves alone what the closure
\* captured and the state of every other invocation.
LocalStep ==
    /\ wrapped' = wrapped
    /\ \E k \in CallIds : \A j \in CallIds \ {k} : calls'[j] = calls[j]

\* C20: concurrent invocations of one wrapped client function or server
\* handler are isolated: the options are those merged at construction and no
\* step writes them, a step changes the state of one invocation only, and
\* the envelope / input value an invocation has built comes from a fresh
\* one and that invocation's own input alone.
C20_Isolated ==
    /\ [](/\ wrapped.opts = mergeOptions(wrapped.side, wrapped.options)
          /\ \A k \in CallIds : OwnData(k))
    /\ [][LocalStep]_vars

\* Two client calls with different inputs in flight at once, each with an
\* envelope of its own.
C20_Witness ==
    /\ wrapped.side = "client"
    /\ \E j, k \in CallIds :
          /\ calls[j].pc = "execute" /\ calls[k].pc = "decode"
          /\ calls[j].input # calls[k].input
          /\ calls[j].req.PathParams # calls[k].req.PathParams

(***************************************************************************)
(* Header binding on the server.  The README's GetArticleReq has a field   *)
(* `header:"X-Token"` next to uri and form fields and says it is bound     *)
(* from the header when WrapHandler is used with its defaults.             *)
(***************************************************************************)
\* The header-tagged fields of the input type whose header the request
\* carries with a value of the field's type.
HeaderSent(i) ==
    /\ itype[i].header # ""
    /\ itype[i].header \in DOMAIN ctx.Header
    /\ IsInt(ctx.Header[itype[i].header])

\* C21 (as claimed): when the default decoder has decoded a request without
\* error, every header-tagged field whose header the request carries holds
\* the value of that header, as uri fields hold the path parameter and form
\* fields the query parameter.
C21_HeaderFieldBound ==
    (DecDone /\ decErr = "nil") =>
        \A i \in 1..Len(itype) :
            HeaderSent(i) => args[i] = ParseInt(ctx.Header[itype[i].header])

(***************************************************************************)
(* The strings bound to path, query and header.                            *)
(***************************************************************************)
\* The canonical string of a field's value: the decimal of the integer the
\* field holds or points to.
Canonical(f) == ToString(f.v)

\* An input equal to `in`: every set pointer field points to an equal value
\* kept at another address.
Relocated(in) ==
    [in EXCEPT !.fields =
        [i \in 1..Len(in.fields) |->
            IF in.fields[i].kind = "ptr"
            THEN [in.fields[i] EXCEPT !.addr = CHOOSE a \in Addrs : a # in.fields[i].addr]
            ELSE in.fields[i]]]

\* C22 (as claimed): every string bound to a path, query or header name is
\* the canonical string of the value of the field bound there, and encoding
\* an equal input, set pointer fields pointing to equal values included,
\* gives the same path, query and header strings.
C22_CanonicalDeterministic ==
    (EncDone /\ IsStructInput /\ encErr = "nil") =>
        \A d \in {"path", "query", "header"} :
            /\ \A i \in Routed(input.fields, d) :
                 LET k == KeyOf(input.fields[i], FirstTag(input.fields[i])) IN
                 i = LastWith(input.fields, Routed(input.fields, d), k) =>
                     PartMap(req, d)[k] = Canonical(input.fields[i])
            /\ PartMap(DefaultRequestEncoder(FreshRequest, Relocated(input)).req, d)
                 = PartMap(req, d)

(***************************************************************************)
(* Fields with no recognized tag.                                          *)
(***************************************************************************)
Untagged(f) == f.exported /\ TagsOf(f) = {}

AnyRouted(fields) == \E n \in 1..Len(Parts) : Routed(fields, Parts[n]) # {}

\* Field i is a member of the body the request carries, under its Go name.
InBody(r, in, i) ==
    LET w == WireBody(r.Body) IN
    w.sent /\ \E p \in w.json : p[1] = in.names[i]

\* C23: an exported field with no recognized tag is in the request body only
\* if no field of the struct is routed to path, query, header or body; when
\* some field is routed, the request is the one the struct gives without the
\* untagged field: the field is nowhere in it.
C23_UntaggedOnlyWhenNothingRouted ==
    (EncDone /\ IsStructInput) =>
        \A i \in FieldIdx : Untagged(input.fields[i]) =>
            /\ InBody(req, input, i) => ~AnyRouted(input.fields)
            /\ AnyRouted(input.fields) =>
                 /\ WireOf(req) = WireOf(DefaultRequestEncoder(FreshRequest, Without(input, i)).req)
                 /\ \A n \in 1..Len(Parts) : input.names[i] \notin DOMAIN PartMap(req, Parts[n])

\* C23 witness: an untagged field holding a value next to a field routed to
\* the path; the request has the path parameter and no body.
C23_Witness ==
    /\ EncDone /\ IsStructInput
    /\ \E i, j \in FieldIdx :
         /\ Untagged(input.fields[i]) /\ input.fields[i].kind = "val"
         /\ j \in Routed(input.fields, "path")
    /\ req.PathParams # EmptyMap
    /\ req.Body = NoBody

(***************************************************************************)
(* The client with its default decoder, over the output types O can be:    *)
(* NewClient[I, O] for a struct, a pointer and an interface type.          *)
(***************************************************************************)
OutInit ==
    \* options that leave the decoder slot alone
    \* the output types of the tests (a struct, struct{}, a pointer to a
    \* struct) and an interface type
    /\ \E otype \in {"TestResponse", "struct{}", "*TestResponse", "any"} :
       \E options \in { <<>>, <<WithEncoder("customEncoder")>>,
                        <<WithErrorHandler("customErrorHandler")>> } :
          wrapped = [NewClient("Full", options) EXCEPT !.O = otype]
    /\ calls \in [1..1 -> { NewCliCall("Full", a) : a \in ConcInputs }]
    /\ EncIdle
    /\ DecIdle
    /\ FsIdle

OutputSpec == OutInit /\ [][CliNext]_vars

\* Call k got a response without an error status and the default decoder
\* was given it.
Decoded(k) ==
    /\ wrapped.side = "client" /\ wrapped.opts.decoder = "DefaultResponseDecoder"
    /\ CliDone(k)
    /\ StageErr(k, "decoder") # "none"

\* C24 (as claimed): with the default response decoder, a non-error response
\* with an empty body gives the caller the zero value of the output type and
\* a nil error; one with a body that is not valid JSON for the output type
\* gives a non-nil error and the zero output.
C24_EmptyAndInvalidBody ==
    \A k \in CallIds : Decoded(k) =>
        /\ calls[k].resp.body = "empty" => calls[k].full = [out |-> ZeroOutput, err |-> "nil"]
        /\ calls[k].resp.body = "invalid" =>
             /\ calls[k].full.err # "nil"
             /\ calls[k].full.out = ZeroOutput

\* C28 (as claimed): without a custom decoder the call never returns
\* ErrDecoderReturnedWrongType: whatever the output type and the response
\* body, the value of the default decoder passes the type assertion to O.
C28_DefaultDecoderRightType ==
    (wrapped.side = "client" /\ wrapped.opts.decoder = "DefaultResponseDecoder") =>
        \A k \in CallIds :
            /\ calls[k].err # ErrDecoderReturnedWrongType
            /\ StageErr(k, "decoder") = "nil" => TypeAssert(calls[k].resultAny, "O")

(***************************************************************************)
(* Pointer inputs and inputs that are no struct.                           *)
(***************************************************************************)
\* The struct a pointer input points to, as a value.
Elem(in) == [in EXCEPT !.ptr = FALSE]

\* C25: a non-nil pointer to a struct is encoded to the same path
\* parameters, query parameters, headers and body content as the struct it
\* points to; an input that is no struct after dereferencing is set as the
\* body as it is, and no path parameter, query parameter or header is set.
C25_PointerLikeValue ==
    EncDone =>
        /\ (IsStructInput /\ input.ptr) =>
             WireOf(req) = WireOf(DefaultRequestEncoder(FreshRequest, Elem(input)).req)
        /\ input.target = "scalar" =>
             /\ req.Body = [kind |-> "input", m |-> EmptyMap, whole |-> input]
             /\ req.PathParams = EmptyMap /\ req.QueryParams = EmptyMap /\ req.Header = EmptyMap
             /\ req.calls = <<"SetBody">>

\* C25 witness: a pointer to a struct with a path field and a body field
\* was encoded: the request has the path parameter and the body mapping.
C25_Witness ==
    /\ EncDone /\ IsStructInput /\ input.ptr
    /\ Routed(input.fields, "path") # {} /\ Routed(input.fields, "body") # {}
    /\ req.PathParams # EmptyMap
    /\ req.Body.kind = "map"

(***************************************************************************)
(* The error handler of the server pipeline.                               *)
(***************************************************************************)
\* The error of the first stage of call k that failed: the error a decoder,
\* handler or encoder returned, or the wrong-type error of the type check
\* ("nil" when no stage failed).
Failure(k) ==
    IF FirstFailed(k) # 0 THEN calls[k].trace[FirstFailed(k)].err
    ELSE IF WrongType(k) THEN ErrDecoderReturnedWrongType
    ELSE "nil"

\* C27: whatever the decoder, the business handler and the encoder are, the
\* error handler is called at most once per request; nothing of the pipeline
\* runs after it; and when the request is over it has been called exactly
\* if a stage (decode, type check, handler, encode) failed, with the error
\* of the first stage that failed.
C27_ErrorHandlerOnceWithFirstError ==
    wrapped.side = "server" =>
        \A k \in CallIds :
            LET tr == calls[k].trace IN
            /\ Count(k, "errorHandler") <= 1
            /\ Len(calls[k].reported) = Count(k, "errorHandler")
            /\ \A n \in 1..Len(tr) :
                 tr[n].stage = "errorHandler" => (n = Len(tr) /\ calls[k].pc = "done")
            /\ SrvDone(k) =>
                 calls[k].reported = IF Failure(k) = "nil" THEN <<>> ELSE <<Failure(k)>>

\* C27 witness: decoder and handler succeeded, the encoder failed, and the
\* error handler was called once, last, with the encoder's error.
C27_Witness ==
    /\ wrapped.side = "server"
    /\ \E k \in CallIds :
         /\ SrvDone(k)
         /\ StageNames(k) = <<"decoder", "handler", "encoder", "errorHandler">>
         /\ calls[k].reported = <<"invalid type">>

(***************************************************************************)
(* Nil pointer fields and the choice of the body.                          *)
(***************************************************************************)
\* The struct is made of nil pointer fields only (at least one).
AllNil(fields) == Len(fields) > 0 /\ \A i \in 1..Len(fields) : fields[i].kind = "nilptr"

\* C29: a nil pointer field is not seen by the choice of the body: one with
\* a json tag adds no member to the body mapping and does not count as a
\* body tag.  So a struct whose non-nil fields are all routed to path, query
\* or header (and has one) gets no body, and a struct whose fields are all
\* nil pointers, tagged or not, is the body whole.
C29_NilFieldsInvisibleToBodyChoice ==
    (EncDone /\ IsStructInput) =>
        /\ \A i \in FieldIdx :
             (input.fields[i].kind = "nilptr" /\ input.fields[i].tags.json # "") =>
                 LET untagged == DefaultRequestEncoder(FreshRequest,
                                     [input EXCEPT !.fields[i].tags = NoTags]).req
                 IN  /\ req.Body.kind = untagged.Body.kind
                     /\ req.Body.m = untagged.Body.m
                     /\ req.calls = untagged.calls
        /\ req.Body.kind = "map" =>
             DOMAIN req.Body.m =
                 { KeyOf(input.fields[i], "json") : i \in Routed(input.fields, "body") }
        /\ ( /\ \E i \in FieldIdx : Live(input.fields[i])
             /\ \A i \in FieldIdx : Live(input.fields[i]) =>
                    Dest(input.fields[i]) \in {"path", "query", "header"} )
             => req.Body = NoBody
        /\ AllNil(input.fields) =>
             req.Body = [kind |-> "input", m |-> EmptyMap, whole |-> input]

\* C29 witness: a path field next to a json-tagged nil pointer: the request
\* has the path parameter and no body.
C29_Witness ==
    /\ EncDone /\ IsStructInput
    /\ \E i, j \in FieldIdx :
         /\ input.fields[i].kind = "nilptr" /\ input.fields[i].tags.json # ""
         /\ j \in Routed(input.fields, "path")
    /\ req.PathParams # EmptyMap
    /\ req.Body = NoBody

(***************************************************************************)
(* The requests of NewGetter and NewAction.                                *)
(***************************************************************************)
\* C30: NewGetter and NewAction call the Full-shape function with struct{}{};
\* the default encoder sets no path parameter, query parameter or header for
\* it and sets it as the body, so the request carries a body (the empty JSON
\* object) instead of being left as restyClient.R() made it.
C30_EmptyStructIsBody ==
    ( /\ wrapped.side = "client" /\ wrapped.shape \in {"Getter", "Action"}
      /\ wrapped.opts.encoder = "DefaultRequestEncoder" ) =>
        \A k \in CallIds :
            /\ calls[k].input = EmptyStructInput
            /\ calls[k].pc # "encode" =>
                 /\ calls[k].req = SetBodyInput(FreshRequest, EmptyStructInput)
                 /\ calls[k].req # FreshRequest
                 /\ WireBody(calls[k].req.Body) = [sent |-> TRUE, json |-> {}]

\* C30 witness: a call of a function made by NewGetter was answered 200 and
\* returned; its request had the empty struct as body.
C30_Witness ==
    /\ wrapped.side = "client" /\ wrapped.shape = "Getter"
    /\ wrapped.opts.encoder = "DefaultRequestEncoder"
    /\ \E k \in CallIds :
         /\ CliDone(k) /\ calls[k].ret.err = "nil"
         /\ calls[k].req.calls = <<"SetBody">>
         /\ calls[k].req.Body.kind = "input"

(***************************************************************************)
(* The fullstack example: a Store, the service implementation on it, the   *)
(* gin routes that wrap the service's methods, and the API client that     *)
(* implements the same interface over HTTP.  Strings are known by a code:  *)
(* 0 is "", for an email 1 is a well-formed address and 2 one that is not; *)
(* times (CreatedAt, Timestamp) are left out.                              *)
(***************************************************************************)
User(id, name, email) == [id |-> id, name |-> name, email |-> email]

NoOutput == [type |-> "none"]

\* Store.CreateUser
Store_CreateUser(s, name, email) ==
    LET user == User(s.nextID, name, email) IN
    [store |-> [s EXCEPT !.users = { u \in @ : u.id # s.nextID } \cup {user},
                         !.nextID = @ + 1],
     out |-> user, err |-> "nil"]

\* Store.GetUser
Store_GetUser(s, id) ==
    IF \E u \in s.users : u.id = id
    THEN [store |-> s, out |-> CHOOSE u \in s.users : u.id = id, err |-> "nil"]
    ELSE [store |-> s, out |-> User(0, 0, 0), err |-> "user not found"]

\* Store.ListUsers, under ServiceImpl.ListUsers: the total and the users (in
\* the order of a map iteration: a set).
Store_ListUsers(s) ==
    [store |-> s, out |-> [total |-> Cardinality(s.users), users |-> s.users], err |-> "nil"]

\* Store.DeleteUser
Store_DeleteUser(s, id) ==
    IF \E u \in s.users : u.id = id
    THEN [store |-> [s EXCEPT !.users = { u \in @ : u.id # id }], out |-> NoOutput,
          err |-> "nil"]
    ELSE [store |-> s, out |-> NoOutput, err |-> "user not found"]

\* Store.UpdateArticle: the article is created, by author "unknown" (1),
\* when it does not exist.
Store_UpdateArticle(s, id, title, content) ==
    LET old == IF \E a \in s.articles : a.id = id
               THEN CHOOSE a \in s.articles : a.id = id
               ELSE [id |-> id, title |-> 0, content |-> 0, author |-> 1]
        article == [old EXCEPT !.title = title, !.content = content]
    IN  [store |-> [s EXCEPT !.articles = { a \in @ : a.id # id } \cup {article}],
         out |-> article, err |-> "nil"]

\* ServiceImpl: each method on the store, given the fields of its request.
ServiceImpl(op, s, a) ==
    CASE op = "CreateUser" -> Store_CreateUser(s, a[1], a[2])
      [] op = "GetUser" -> Store_GetUser(s, a[1])
      [] op = "ListUsers" -> Store_ListUsers(s)
      [] op = "DeleteUser" -> Store_DeleteUser(s, a[1])
      [] op = "UpdateArticle" -> Store_UpdateArticle(s, a[1], a[2], a[3])
      [] op = "Health" -> [store |-> s, out |-> [status |-> 1], err |-> "nil"]
      [] OTHER -> [store |-> s, out |-> NoOutput, err |-> "nil"]

\* The request types of model.go, with the tags the client reads.
FsInput(op, v) ==
    CASE op = "CreateUser" ->
            StructInput(FALSE, <<PlainField([NoTags EXCEPT !.json = "name"], v[1]),
                                 PlainField([NoTags EXCEPT !.json = "email"], v[2])>>)
      [] op \in {"GetUser", "DeleteUser"} ->
            StructInput(FALSE, <<PlainField([NoTags EXCEPT !.path = "id"], v[1])>>)
      [] op = "ListUsers" ->
            StructInput(FALSE,
                <<PlainField([NoTags EXCEPT !.form = "page", !.query = "page"], v[1]),
                  PlainField([NoTags EXCEPT !.form = "page_size", !.query = "page_size"], v[2])>>)
      [] op = "UpdateArticle" ->
            StructInput(FALSE, <<PlainField([NoTags EXCEPT !.path = "id"], v[1]),
                                 PlainField([NoTags EXCEPT !.json = "title"], v[2]),
                                 PlainField([NoTags EXCEPT !.json = "content"], v[3])>>)
      [] OTHER -> EmptyStructInput

\* The values a caller gives the fields of a request.
FsValues(op) ==
    \* a valid request, one without a name, one with a malformed email
    CASE op = "CreateUser" -> { <<1, 1>>, <<0, 1>>, <<1, 2>> }
      [] op \in {"GetUser", "DeleteUser"} -> { <<i>> : i \in 0..MaxUserId }
      [] op = "ListUsers" -> { <<p, z>> : p \in 0..1, z \in 0..1 }
      [] op = "UpdateArticle" -> { <<1, t, 1>> : t \in 1..2 }
      [] OTHER -> { <<>> }

\* The same types as gin binds them: the uri, form and json tags, and
\* `binding:"required"` on the two fields of CreateUserRequest.
FsType(op) ==
    LET t == ServerType(FsInput(op, CHOOSE v \in FsValues(op) : TRUE)) IN
    IF op = "CreateUser" THEN [i \in 1..Len(t) |-> [t[i] EXCEPT !.required = TRUE]] ELSE t

\* The other binding rules of model.go: `email` on CreateUserRequest.Email,
\* `gte=1` on ListUsersRequest.Page and PageSize (`lte=100` with it).
Rules(op, a) ==
    CASE op = "CreateUser" -> a[2] # 2
      [] op = "ListUsers" -> a[1] >= 1 /\ a[2] >= 1
      [] OTHER -> TRUE

\* DefaultDecoder[I] for the request type of an operation: after the binding
\* of a pass, the validation of the whole struct against every rule.
RECURSIVE FsPasses(_, _, _, _, _)
FsPasses(pc, op, t, c, a) ==
    CHOOSE result \in
        { IF NextPc(pc, r.err) = "done" THEN [args |-> r.args, err |-> r.err]
          ELSE FsPasses(NextPc(pc, r.err), op, t, c, r.args) :
            r \in { IF b.ran /\ b.err = "nil" /\ ~Rules(op, b.args)
                    THEN [b EXCEPT !.err = "validation error"]
                    ELSE b :
                      b \in { PassAt(pc, c, t, a) } } } : TRUE

\* json.Marshal / json.Unmarshal of a struct of numbers.
MarshalRec(x) == [k \in DOMAIN x |-> ToString(x[k])]

UnmarshalRec(d) == [k \in DOMAIN d |-> ParseInt(d[k])]

\* c.JSON(http.StatusOK, output): WrapConsumer and WrapAction write struct{}{}.
FsMarshal(op, out) ==
    CASE op \in {"DeleteUser", "TriggerTask"} -> EmptyMap
      [] op = "ListUsers" ->
            [total |-> ToString(out.total), users |-> { MarshalRec(u) : u \in out.users }]
      [] OTHER -> MarshalRec(out)

\* DefaultResponseDecoder[O] on the body of a 200 answer; NewConsumer and
\* NewAction drop the struct{} they get.
FsUnmarshal(op, body) ==
    CASE op \in {"DeleteUser", "TriggerTask"} -> NoOutput
      [] op = "ListUsers" ->
            [total |-> ParseInt(body.total), users |-> { UnmarshalRec(u) : u \in body.users }]
      [] OTHER -> UnmarshalRec(body)

\* The error handler of a route: the default one answers 500; the custom one
\* of DELETE /users/:id answers 404 for "user not found" and 500 otherwise.
FsErrorHandler(op, err) ==
    IF op = "DeleteUser" /\ err = "user not found"
    THEN [status |-> 404, body |-> [code |-> "NOT_FOUND", message |-> err]]
    ELSE IF op = "DeleteUser"
    THEN [status |-> 500, body |-> [code |-> "INTERNAL_ERROR", message |-> err]]
    ELSE [status |-> 500, body |-> [error |-> err]]

\* A route of RegisterRouter serving a request: decode, the method of the
\* service, and the answer of the encoder or of the error handler.
Route(op, c, s) ==
    CHOOSE answer \in
        { IF dec.err # "nil" THEN [store |-> s, resp |-> FsErrorHandler(op, dec.err)]
          ELSE LET svc == ServiceImpl(op, s, dec.args) IN
               IF svc.err # "nil"
               THEN [store |-> svc.store, resp |-> FsErrorHandler(op, svc.err)]
               ELSE [store |-> svc.store,
                     resp |-> [status |-> 200, body |-> FsMarshal(op, svc.out)]] :
            dec \in { FsPasses("uri", op, t, c, ZeroArgs(t)) : t \in { FsType(op) } } } : TRUE

\* A method of apiclient.Client: the function NewClient / NewGetter /
\* NewConsumer / NewAction makes, called with the request.
Client(op, in, s) ==
    CHOOSE result \in
        { IF srv.err # "nil" THEN [store |-> s, out |-> NoOutput, err |-> srv.err]
          ELSE LET err == DefaultCliErrorHandler(srv.resp, "nil") IN
               IF err # "nil" THEN [store |-> srv.store, out |-> NoOutput, err |-> err]
               ELSE [store |-> srv.store, out |-> FsUnmarshal(op, srv.resp.body),
                     err |-> "nil"] :
            srv \in { IF enc.err # "nil" THEN [err |-> enc.err]
                      ELSE [err |-> "nil"] @@ Route(op, c, s) :
                        enc \in { DefaultRequestEncoder(FreshRequest, in) },
                        c \in { Received(DefaultRequestEncoder(FreshRequest, in).req) } } } : TRUE

\* One call of an operation: made directly or through the client; what the
\* other way gives from the same store is recorded next to it.
Call(op) ==
    \E v \in FsValues(op) : \E via \in {"direct", "rpc"} :
        /\ lastCall' = [op |-> op, input |-> FsInput(op, v), via |-> via,
                        direct |-> ServiceImpl(op, store, v),
                        rpc |-> Client(op, FsInput(op, v), store)]
        /\ store' = IF via = "direct" THEN lastCall'.direct.store ELSE lastCall'.rpc.store

CreateUser ==
    /\ store.nextID <= MaxUserId
    /\ Call("CreateUser")
    /\ UNCHANGED <<encVars, decVars, pipeVars>>

GetUser == Call("GetUser") /\ UNCHANGED <<encVars, decVars, pipeVars>>

ListUsers == Call("ListUsers") /\ UNCHANGED <<encVars, decVars, pipeVars>>

DeleteUser == Call("DeleteUser") /\ UNCHANGED <<encVars, decVars, pipeVars>>

UpdateArticle == Call("UpdateArticle") /\ UNCHANGED <<encVars, decVars, pipeVars>>

Health == Call("Health") /\ UNCHANGED <<encVars, decVars, pipeVars>>

TriggerTask == Call("TriggerTask") /\ UNCHANGED <<encVars, decVars, pipeVars>>

FsInit ==
    \* GetStore / initTestData: Alice and Bob, the next id is 3
    /\ store = [users |-> {User(1, 1, 1), User(2, 2, 1)}, articles |-> {}, nextID |-> 3]
    /\ lastCall = [op |-> "none"]
    /\ EncIdle
    /\ DecIdle
    /\ PipeIdle

FsNext ==
    \/ CreateUser
    \/ GetUser
    \/ ListUsers
    \/ DeleteUser
    \/ UpdateArticle
    \/ Health
    \/ TriggerTask

FullstackSpec == FsInit /\ [][FsNext]_vars

\* C26 (as claimed): for every operation and input, the call through the
\* client returns an error exactly when the direct call does, the same
\* result when neither does, and leaves the store as the direct call does.
C26_RpcLikeDirect ==
    lastCall.op # "none" =>
        /\ (lastCall.rpc.err = "nil") <=> (lastCall.direct.err = "nil")
        /\ lastCall.direct.err = "nil" => lastCall.rpc.out = lastCall.direct.out
        /\ lastCall.rpc.store = lastCall.direct.store

=============================================================================
